---- MODULE Spec2Model ----
(***************************************************************************)
(* State-machine model of the semantic-property search-and-link component  *)
(* (frontend/src/components/search/properties-search.tsx).                 *)
(*                                                                         *)
(* Strings are sequences of one-character strings, so that trim, split,    *)
(* template concatenation and URL encoding are computed as the code        *)
(* computes them.  React state is one variable per useState cell.  Every   *)
(* action is one event-loop task: a user event, a timer callback or the    *)
(* continuation of an awaited request, followed by the render it causes    *)
(* and the effects of that render (state updates made in one task are      *)
(* batched into one render, as in React 18).  A callback created in a      *)
(* render sees the values of that render: the closures that outlive a      *)
(* render (timer callbacks, continuations of requests) carry the           *)
(* location.search they captured in the field "loc".                       *)
(***************************************************************************)
EXTENDS Integers, Sequences, FiniteSets, TLC

(***************************************************************************)
(* Bounds and program constants                                            *)
(***************************************************************************)
MaxRequests == 3        \* requests the session may issue in one behaviour

MaxUserEvents == 2      \* user events (typing, clicks) in the search box

MaxAssignRequests == 3  \* requests issued while the assign dialog is in use

MaxLinks == 2           \* links in one body of GET /api/semantic-links/iri/<iri>

MaxRaceRequests == 6    \* requests issued while two selections overlap

MaxInFlight == 3        \* requests in flight at once while the component is left alone

MaxWorkflowRequests == 4 \* requests issued by the workflow list

DebounceMs == 250       \* setTimeout(searchProperties, 250)

TickMs == DebounceMs \div 2   \* granularity of the modelled clock

(***************************************************************************)
(* String helpers (JavaScript String methods on character sequences)       *)
(***************************************************************************)
Null == [type |-> "null"]

Str_query == <<"q", "u", "e", "r", "y">>

Str_iri == <<"i", "r", "i">>

RECURSIVE TrimStart(_)
TrimStart(s) ==
  IF s # <<>> /\ Head(s) = " " THEN TrimStart(Tail(s)) ELSE s

RECURSIVE TrimEnd(_)
TrimEnd(s) ==
  IF s # <<>> /\ s[Len(s)] = " " THEN TrimEnd(SubSeq(s, 1, Len(s) - 1)) ELSE s

\* String.prototype.trim
Trim(s) == TrimEnd(TrimStart(s))

\* String.prototype.includes for a one-character needle
Includes(s, c) == \E i \in 1..Len(s) : s[i] = c

\* String.prototype.split on a set of one-character delimiters:
\* the sequence of (possibly empty) segments between delimiters
RECURSIVE SplitAcc(_, _, _)
SplitAcc(s, delims, cur) ==
  IF s = <<>> THEN <<cur>>
  ELSE IF Head(s) \in delims
       THEN <<cur>> \o SplitAcc(Tail(s), delims, <<>>)
       ELSE SplitAcc(Tail(s), delims, Append(cur, Head(s)))

Split(s, delims) == SplitAcc(s, delims, <<>>)

\* Array.prototype.pop of a non-empty array: its last element
Pop(a) == a[Len(a)]

\* Array.prototype.find: the first element satisfying Test, else Null
RECURSIVE FindValue(_, _)
FindValue(items, v) ==
  IF items = <<>> THEN Null
  ELSE IF Head(items).value = v THEN Head(items)
       ELSE FindValue(Tail(items), v)

(***************************************************************************)
(* URLSearchParams: serialisation and parsing of location.search           *)
(***************************************************************************)
\* application/x-www-form-urlencoded byte serialisation of one character
EncodeChar(c) ==
  CASE c = " " -> <<"+">>
    [] c = "#" -> <<"%", "2", "3">>
    [] c = "/" -> <<"%", "2", "F">>
    [] c = "&" -> <<"%", "2", "6">>
    [] c = "=" -> <<"%", "3", "D">>
    [] c = "+" -> <<"%", "2", "B">>
    [] c = "%" -> <<"%", "2", "5">>
    [] c = "?" -> <<"%", "3", "F">>
    [] OTHER -> <<c>>

RECURSIVE Encode(_)
Encode(s) == IF s = <<>> THEN <<>> ELSE EncodeChar(Head(s)) \o Encode(Tail(s))

\* percent-decoding of one escape %hl
DecodeHex(h, l) ==
  CASE h = "2" /\ l = "3" -> "#"
    [] h = "2" /\ l = "F" -> "/"
    [] h = "2" /\ l = "6" -> "&"
    [] h = "3" /\ l = "D" -> "="
    [] h = "2" /\ l = "B" -> "+"
    [] h = "2" /\ l = "5" -> "%"
    [] h = "3" /\ l = "F" -> "?"
    [] h = "2" /\ l = "0" -> " "
    [] OTHER -> "%"

RECURSIVE Decode(_)
Decode(s) ==
  IF s = <<>> THEN <<>>
  ELSE IF Head(s) = "+" THEN <<" ">> \o Decode(Tail(s))
  ELSE IF Head(s) = "%" /\ Len(s) >= 3
       THEN <<DecodeHex(s[2], s[3])>> \o Decode(SubSeq(s, 4, Len(s)))
       ELSE <<Head(s)>> \o Decode(Tail(s))

\* one "name=value" piece of a query string, decoded; name is the text
\* before its first "="
PairOf(piece, name) ==
  <<Decode(name), Decode(SubSeq(piece, Len(name) + 2, Len(piece)))>>

ParsePair(piece) == PairOf(piece, Head(Split(piece, {"="})))

\* the decoded pairs of the non-empty pieces of a query string
ParsePieces(kept) == [i \in 1..Len(kept) |-> ParsePair(kept[i])]

\* a query string without its leading "?"
QueryBody(search) ==
  IF search # <<>> /\ Head(search) = "?" THEN Tail(search) ELSE search

\* new URLSearchParams(search): the list of <<name, value>> pairs
ParseParams(search) ==
  ParsePieces(SelectSeq(Split(QueryBody(search), {"&"}), LAMBDA p : p # <<>>))

\* URLSearchParams.get(name) || '' : the first value of name; an absent
\* parameter (null) and an empty one are both falsy at every use in the code
RECURSIVE ParamsGet(_, _)
ParamsGet(params, name) ==
  IF params = <<>> THEN <<>>
  ELSE IF Head(params)[1] = name THEN Head(params)[2]
       ELSE ParamsGet(Tail(params), name)

\* URLSearchParams.toString()
RECURSIVE ParamsToString(_)
ParamsToString(params) ==
  IF params = <<>> THEN <<>>
  ELSE Encode(Head(params)[1]) \o <<"=">> \o Encode(Head(params)[2])
       \o (IF Len(params) = 1 THEN <<>>
           ELSE <<"&">> \o ParamsToString(Tail(params)))

\* lines 75-76: params.set for each non-empty value, query first
NewParams(currentQuery, currentIri) ==
  (IF currentQuery # <<>> THEN << <<Str_query, currentQuery>> >> ELSE <<>>)
  \o (IF currentIri # <<>> THEN << <<Str_iri, currentIri>> >> ELSE <<>>)

\* a merge that forgets the parameters of the current URL
MergedParams_overwrite(currentParams, updates) ==
  NewParams(IF "query" \in DOMAIN updates THEN updates.query ELSE <<>>,
            IF "iri" \in DOMAIN updates THEN updates.iri ELSE <<>>)

\* lines 72-73: an update that is not undefined replaces the URL's value
MergedParams(currentParams, updates) ==
  NewParams(IF "query" \in DOMAIN updates THEN updates.query
            ELSE ParamsGet(currentParams, Str_query),
            IF "iri" \in DOMAIN updates THEN updates.iri
            ELSE ParamsGet(currentParams, Str_iri))

\* lines 78-79: the search string of the URL navigated to
ToSearch(queryString) ==
  IF queryString # <<>> THEN <<"?">> \o queryString ELSE <<>>

\* updateUrl (lines 70-82): the search string navigated to, computed from the
\* location.search the closure captured and the partial updates.  updates is a
\* record that may have the fields query and iri.
updateUrl(loc, updates) ==
  ToSearch(ParamsToString(MergedParams(ParseParams(loc), updates)))

UrlQuery(search) == ParamsGet(ParseParams(search), Str_query)

UrlIri(search) == ParamsGet(ParseParams(search), Str_iri)


(***************************************************************************)
(* Backend data the requests may return                                    *)
(***************************************************************************)
PropA == [value |-> <<"o", "#", "a">>, label |-> <<"A">>, type |-> "property"]

PropB == [value |-> <<"o", "/", "b">>, label |-> <<>>, type |-> "property"]

\* bodies of GET /api/semantic-models/properties (res.data || [])
SearchHits == {<<>>, <<PropB, PropA>>}

\* body of GET /api/semantic-models/neighbors?iri=...: one literal fact
\* whose display names the IRI it was fetched for
NeighborsOf(iri) ==
  << [direction |-> "outgoing", predicate |-> <<"l">>, display |-> iri,
      displayType |-> "literal"] >>

\* bodies of GET /api/semantic-links/iri/<iri> whose enrichment needs no
\* contract fetch
PlainLinkResponses(iri) ==
  { <<>>,
    << [id |-> "l2", entity_id |-> <<"m", "#", "n">>, entity_type |-> "uc_column",
        iri |-> iri] >> }

\* bodies of GET /api/semantic-links/iri/<iri> whose enrichment fetches a
\* contract
ContractLinkResponses(iri) ==
  { << [id |-> "l1", entity_id |-> <<"c", "#", "s", "#", "p">>,
        entity_type |-> "data_contract_property", iri |-> iri] >> }

\* bodies of GET /api/data-contracts/<id>
ContractDetail(id) ==
  IF id = <<"c">>
  THEN [id |-> id, name |-> <<>>, info |-> [title |-> <<"T">>],
        schema_objects |->
          << [name |-> <<"s">>, physical_name |-> <<>>,
              properties |-> << [name |-> <<"p">>] >>] >>]
  ELSE IF id = <<"e">>
  THEN [id |-> id, name |-> <<>>, info |-> [title |-> <<>>],
        schema_objects |-> <<>>]
  ELSE [id |-> id, name |-> <<"N">>, info |-> [title |-> <<>>],
        schema_objects |->
          << [name |-> <<>>, physical_name |-> <<"t">>,
              properties |-> << [name |-> <<"r">>] >>] >>]

\* body of GET /api/data-contracts
ContractList == <<ContractDetail(<<"c">>), ContractDetail(<<"d">>)>>

\* what the user may type into the search box
TypedQueries == {<<" ">>, <<"d">>}

\* URLs the view may be opened with
InitialUrls ==
  { <<>>,
    updateUrl(<<>>, [query |-> <<"c">>]),
    updateUrl(<<>>, [iri |-> PropA.value]),
    updateUrl(<<>>, [iri |-> <<"x", "#">>]) }

(***************************************************************************)
(* State                                                                   *)
(***************************************************************************)
VARIABLES
  propertySearchQuery,       \* useState, line 52
  propertySearchResults,     \* line 53
  isPropertyDropdownOpen,    \* line 54
  selectedProperty,          \* line 55 (Null or a PropertyItem)
  propertyIri,               \* line 56
  propertyLabel,             \* line 57
  propertyNeighbors,         \* line 58
  semanticLinks,             \* line 59
  assignDialogOpen,          \* line 62
  assignTargetType,          \* line 63
  contracts,                 \* line 64
  selectedContractId,        \* line 65
  selectedSchemaName,        \* line 66
  selectedPropertyEntityId,  \* line 67
  ucAssetDialogOpen,         \* line 68
  selectedContractDetail,    \* line 236
  search,                    \* location.search of the router
  initialQuery,              \* the initialQuery prop
  timers,                    \* pending setTimeout callbacks of the search effect
  inflight,                  \* awaited requests and the continuations they resume
  nextId,                    \* number of requests issued so far
  toast,                     \* the notification shown last
  userEvents,                \* number of user events so far
  sinceEdit,                 \* ms since propertySearchQuery last changed (capped)
  burstEdits,                \* its changes since a timer last ran (capped at 2)
  issuedSinceEdit,           \* search requests issued since it last changed
  lastEvent,                 \* the task that ran last
  workflows                  \* useState of the workflow list, compliance.tsx line 137

reactVars ==
  <<propertySearchQuery, propertySearchResults, isPropertyDropdownOpen,
    selectedProperty, propertyIri, propertyLabel, propertyNeighbors,
    semanticLinks, assignDialogOpen, assignTargetType, contracts,
    selectedContractId, selectedSchemaName, selectedPropertyEntityId,
    ucAssetDialogOpen, selectedContractDetail>>

vars ==
  <<reactVars, search, initialQuery, timers, inflight, nextId, toast,
    userEvents, sinceEdit, burstEdits, issuedSinceEdit, lastEvent, workflows>>

\* the component as one record: the values a render sees
Cur ==
  [ propertySearchQuery |-> propertySearchQuery,
    propertySearchResults |-> propertySearchResults,
    isPropertyDropdownOpen |-> isPropertyDropdownOpen,
    selectedProperty |-> selectedProperty,
    propertyIri |-> propertyIri,
    propertyLabel |-> propertyLabel,
    propertyNeighbors |-> propertyNeighbors,
    semanticLinks |-> semanticLinks,
    assignDialogOpen |-> assignDialogOpen,
    assignTargetType |-> assignTargetType,
    contracts |-> contracts,
    selectedContractId |-> selectedContractId,
    selectedSchemaName |-> selectedSchemaName,
    selectedPropertyEntityId |-> selectedPropertyEntityId,
    ucAssetDialogOpen |-> ucAssetDialogOpen,
    selectedContractDetail |-> selectedContractDetail,
    search |-> search,
    timers |-> timers,
    inflight |-> inflight,
    nextId |-> nextId,
    toast |-> toast ]

\* the component just constructed: every useState at its initial value
Fresh(q, url) ==
  [ propertySearchQuery |-> q,
    propertySearchResults |-> <<>>,
    isPropertyDropdownOpen |-> FALSE,
    selectedProperty |-> Null,
    propertyIri |-> <<>>,
    propertyLabel |-> <<>>,
    propertyNeighbors |-> <<>>,
    semanticLinks |-> <<>>,
    assignDialogOpen |-> FALSE,
    assignTargetType |-> "",
    contracts |-> <<>>,
    selectedContractId |-> <<>>,
    selectedSchemaName |-> <<>>,
    selectedPropertyEntityId |-> <<>>,
    ucAssetDialogOpen |-> FALSE,
    selectedContractDetail |-> Null,
    search |-> url,
    timers |-> {},
    inflight |-> {},
    nextId |-> 0,
    toast |-> Null ]

\* the state after a task: every variable of the component takes c's value
Commit(c) ==
  /\ propertySearchQuery' = c.propertySearchQuery
  /\ propertySearchResults' = c.propertySearchResults
  /\ isPropertyDropdownOpen' = c.isPropertyDropdownOpen
  /\ selectedProperty' = c.selectedProperty
  /\ propertyIri' = c.propertyIri
  /\ propertyLabel' = c.propertyLabel
  /\ propertyNeighbors' = c.propertyNeighbors
  /\ semanticLinks' = c.semanticLinks
  /\ assignDialogOpen' = c.assignDialogOpen
  /\ assignTargetType' = c.assignTargetType
  /\ contracts' = c.contracts
  /\ selectedContractId' = c.selectedContractId
  /\ selectedSchemaName' = c.selectedSchemaName
  /\ selectedPropertyEntityId' = c.selectedPropertyEntityId
  /\ ucAssetDialogOpen' = c.ucAssetDialogOpen
  /\ selectedContractDetail' = c.selectedContractDetail
  /\ search' = c.search
  /\ timers' = c.timers
  /\ inflight' = c.inflight
  /\ nextId' = c.nextId
  /\ toast' = c.toast
  /\ initialQuery' = initialQuery
  /\ workflows' = workflows

\* get(...) / post(...): the request joins the requests in flight; req holds
\* its kind and what the continuation after the await captured
Issue(c, req) ==
  [c EXCEPT !.inflight = @ \cup {req @@ [id |-> c.nextId]},
            !.nextId = @ + 1]

\* the requests in flight of one kind
OfKind(kind) == {r \in inflight : r.kind = kind}

\* the promise of r settles: its continuation runs once
Settle(c, r) == [c EXCEPT !.inflight = @ \ {r}]

(***************************************************************************)
(* Effects                                                                 *)
(***************************************************************************)
\* the search effect without its cleanup: the timer of the previous run
\* stays pending
scheduleSearch_keep(pending, q, loc) ==
  pending \cup {[q |-> q, loc |-> loc, elapsed |-> 0]}

\* the search effect (lines 116-139) re-runs: the cleanup of its previous run
\* clears that run's timer, then setTimeout(searchProperties, 250) with the
\* query and the updateUrl closure of the render
scheduleSearch(pending, q, loc) ==
  {[q |-> q, loc |-> loc, elapsed |-> 0]}

\* lines 84-93: the URL's query is adopted unless it is the initialQuery prop
adoptedQuery(c, iq, urlChanged, urlQuery) ==
  IF urlChanged /\ urlQuery # <<>> /\ urlQuery # iq
  THEN urlQuery ELSE c.propertySearchQuery

\* lines 95-113: the URL's iri is looked up
syncIri(c, e, urlChanged, urlIri) ==
  IF urlChanged /\ urlIri # <<>>
  THEN Issue(e, [kind |-> "lookup", iri |-> urlIri, loc |-> c.search])
  ELSE e

\* lines 116-139
searchEffect(c, e, queryChanged) ==
  IF queryChanged
  THEN [e EXCEPT !.timers = scheduleSearch(@, c.propertySearchQuery, c.search)]
  ELSE e

\* lines 228-234
contractsEffect(c, e, typeChanged) ==
  IF typeChanged /\ c.assignTargetType = "data_contract_property"
  THEN Issue(e, [kind |-> "contracts"])
  ELSE e

\* lines 238-246
detailEffect(c, e, contractChanged) ==
  IF ~contractChanged THEN e
  ELSE IF c.selectedContractId = <<>>
       THEN [e EXCEPT !.selectedContractDetail = Null]
       ELSE Issue(e, [kind |-> "detail", contractId |-> c.selectedContractId])

\* the render caused by setPropertySearchQuery(urlQuery) of the URL sync
\* effect: the search effect runs again, for the adopted query
secondRender(c, e, adopted) ==
  IF adopted # c.propertySearchQuery
  THEN [e EXCEPT !.propertySearchQuery = adopted,
                 !.timers = scheduleSearch(@, adopted, c.search)]
  ELSE e

\* The effects of the render that follows a task, in source order.  c is the
\* rendered state, in which the effects are applied one after the other, and
\* iq the initialQuery prop; the flags say which dependencies changed since
\* the previous render.
Effects(c, iq, urlChanged, queryChanged, typeChanged, contractChanged) ==
  secondRender(c,
    detailEffect(c,
      contractsEffect(c,
        searchEffect(c,
          syncIri(c, c, urlChanged, UrlIri(c.search)),
          queryChanged),
        typeChanged),
      contractChanged),
    adoptedQuery(c, iq, urlChanged, UrlQuery(c.search)))

\* the render after a task that took the component from c0 to c1
Render(c0, c1) ==
  Effects(c1, initialQuery,
          c1.search # c0.search,
          c1.propertySearchQuery # c0.propertySearchQuery,
          c1.assignTargetType # c0.assignTargetType,
          c1.selectedContractId # c0.selectedContractId)

\* the counters of the model after a task that left the component in c2
Finish(c2, edited, ev, budget) ==
  /\ c2.nextId <= budget
  /\ Commit(c2)
  /\ sinceEdit' = IF edited THEN 0 ELSE sinceEdit
  /\ burstEdits' = IF edited THEN (IF burstEdits < 2 THEN burstEdits + 1 ELSE 2)
                   ELSE IF ev.type \in {"searchIssued", "searchSkipped"} THEN 0
                   ELSE burstEdits
  /\ issuedSinceEdit' = IF edited THEN 0
                        ELSE IF ev.type = "searchIssued" THEN issuedSinceEdit + 1
                        ELSE issuedSinceEdit
  /\ lastEvent' = ev

\* the handler took the component to c1 and the render to c2
Rendered(c1, c2, ev, budget) ==
  Finish(c2, \/ c1.propertySearchQuery # propertySearchQuery
             \/ c2.propertySearchQuery # c1.propertySearchQuery,
         ev, budget)

\* One task: the handler took the component to c1; the render and its effects
\* follow.  ev names the task; the task is left out of the model when it
\* would issue more than budget requests in the behaviour.
Task(c1, ev, budget) == Rendered(c1, Render(Cur, c1), ev, budget)

\* a task started by the user in the search box
UserTaskWithin(c1, ev, budget) ==
  /\ userEvents < MaxUserEvents
  /\ userEvents' = userEvents + 1
  /\ Task(c1, ev, budget)

UserTask(c1, ev) == UserTaskWithin(c1, ev, MaxRequests)

\* a task started by a timer or by the response to a request
SystemTask(c1, ev, budget) ==
  /\ userEvents' = userEvents
  /\ Task(c1, ev, budget)

(***************************************************************************)
(* Handlers                                                                *)
(***************************************************************************)
\* lines 156-159
DisplayLabel(property) ==
  IF property.label = <<>> \/ Trim(property.label) = property.value
  THEN IF Includes(property.value, "#")
       THEN Pop(Split(property.value, {"#"}))
       ELSE LET last == Pop(Split(property.value, {"/"}))
            IN IF last # <<>> THEN last ELSE property.value
  ELSE property.label

\* selectProperty (lines 152-167) up to its first await: loc is the
\* location.search its updateUrl closure captured
selectProperty(c, loc, property) ==
  LET displayLabel == DisplayLabel(property)
  IN Issue([c EXCEPT !.selectedProperty = property,
                     !.propertyIri = property.value,
                     !.propertyLabel = displayLabel,
                     !.propertySearchQuery = displayLabel \o <<" ", "-", " ">> \o property.value,
                     !.isPropertyDropdownOpen = FALSE,
                     !.search = updateUrl(loc, [iri |-> property.value])],
           [kind |-> "neighbors", property |-> property])

\* clearSearch removing only the query from the URL
clearSearch_keepIri(c, loc) ==
  [c EXCEPT !.propertySearchQuery = <<>>,
            !.selectedProperty = Null,
            !.propertyIri = <<>>,
            !.propertyLabel = <<>>,
            !.propertyNeighbors = <<>>,
            !.semanticLinks = <<>>,
            !.isPropertyDropdownOpen = FALSE,
            !.search = updateUrl(loc, [query |-> <<>>])]

\* clearSearch (lines 141-150)
clearSearch(c, loc) ==
  [c EXCEPT !.propertySearchQuery = <<>>,
            !.selectedProperty = Null,
            !.propertyIri = <<>>,
            !.propertyLabel = <<>>,
            !.propertyNeighbors = <<>>,
            !.semanticLinks = <<>>,
            !.isPropertyDropdownOpen = FALSE,
            !.search = updateUrl(loc, [query |-> <<>>, iri |-> <<>>])]

\* searchProperties testing the query without trim()
searchProperties_untrimmed(c, t) ==
  IF t.q = <<>>
  THEN [c EXCEPT !.propertySearchResults = <<>>,
                 !.isPropertyDropdownOpen = FALSE,
                 !.search = updateUrl(t.loc, [query |-> <<>>])]
  ELSE Issue(c, [kind |-> "search", q |-> t.q, loc |-> t.loc])

\* searchProperties (lines 117-129) up to its await, run by the timer t
searchProperties(c, t) ==
  IF Trim(t.q) = <<>>
  THEN [c EXCEPT !.propertySearchResults = <<>>,
                 !.isPropertyDropdownOpen = FALSE,
                 !.search = updateUrl(t.loc, [query |-> <<>>])]
  ELSE Issue(c, [kind |-> "search", q |-> t.q, loc |-> t.loc])

\* searchProperties after a successful await (lines 127-129)
searchLoaded(c, r, data) ==
  [c EXCEPT !.propertySearchResults = data,
            !.isPropertyDropdownOpen = Len(data) > 0,
            !.search = updateUrl(r.loc, [query |-> r.q])]

\* a catch that leaves the results and the dropdown as they are
searchFailed_keep(c) == c

\* searchProperties, catch (lines 130-134)
searchFailed(c) ==
  [c EXCEPT !.propertySearchResults = <<>>,
            !.isPropertyDropdownOpen = FALSE]

\* loadPropertyFromIri taking the first hit instead of the exact match
propertyFromIri_first(urlIri, data) ==
  IF data # <<>> THEN Head(data)
  ELSE [value |-> urlIri,
        label |-> Pop(Split(urlIri, {"/", "#"})),
        type |-> "property"]

\* loadPropertyFromIri after a successful await (lines 97-107)
propertyFromIri(urlIri, data) ==
  LET match == FindValue(data, urlIri)
      segment == Pop(Split(urlIri, {"/", "#"}))
  IN IF match # Null THEN match
     ELSE [value |-> urlIri,
           label |-> IF segment # <<>> THEN segment ELSE urlIri,
           type |-> "property"]

(***************************************************************************)
(* Link enrichment (lines 185-211)                                         *)
(***************************************************************************)
\* the element of a destructured array, '' when it is undefined (x || '')
PartOr(parts, i) == IF i <= Len(parts) THEN parts[i] ELSE <<>>

\* contractRes.data?.name || contractRes.data?.info?.title || fallback
ContractTitle(data, fallback) ==
  IF data.name # <<>> THEN data.name
  ELSE IF data.info.title # <<>> THEN data.info.title
  ELSE fallback

\* entity_name that ignores the fetched contract
EntityName_untitled(link, data) == link.entity_id

\* entity_name of a link once its contract fetch returned data (195-196, 202)
EntityName(link, data) ==
  IF link.entity_type = "data_contract_property"
  THEN LET parts == Split(link.entity_id, {"#"})
       IN Trim(ContractTitle(data, parts[1]) \o <<"#">> \o PartOr(parts, 2)
               \o <<".">> \o PartOr(parts, 3))
  ELSE ContractTitle(data, link.entity_id)

\* a push that keeps only the id of the link
Enriched_idOnly(link, name) == [id |-> link.id, entity_name |-> name]

\* result.push({ ...link, entity_name })
Enriched(link, name) == link @@ [entity_name |-> name]

RECURSIVE enrichFrom(_, _, _, _, _)
\* a loop that splits entity_id and fetches a contract for every type of link
enrichFrom_splitAll(c, property, links, i, result) ==
  IF i > Len(links) THEN [c EXCEPT !.semanticLinks = result]
  ELSE IF Split(links[i].entity_id, {"#"})[1] # <<>>
       THEN Issue(c, [kind |-> "contract", property |-> property,
                      links |-> links, i |-> i, result |-> result,
                      contractId |-> Split(links[i].entity_id, {"#"})[1]])
       ELSE enrichFrom(c, property, links, i + 1,
                       Append(result, Enriched(links[i], links[i].entity_id)))

\* a loop that issues the fetch of a link and goes on without awaiting it
enrichFrom_parallel(c, property, links, i, result) ==
  IF i > Len(links) THEN [c EXCEPT !.semanticLinks = result]
  ELSE IF links[i].entity_type \in {"data_contract_property", "data_contract"}
       THEN enrichFrom(Issue(c, [kind |-> "contract", property |-> property,
                                 links |-> links, i |-> i, result |-> result,
                                 contractId |-> Split(links[i].entity_id, {"#"})[1]]),
                       property, links, i + 1,
                       Append(result, Enriched(links[i], links[i].entity_id)))
       ELSE enrichFrom(c, property, links, i + 1,
                       Append(result, Enriched(links[i], links[i].entity_id)))

\* The loop of enrichSemanticLinksWithNames from link i on, up to its next
\* await; property is the selection the enclosing selectProperty runs for.
\* When the loop ends, selectProperty stores the result (line 178).
enrichFrom(c, property, links, i, result) ==
  IF i > Len(links) THEN [c EXCEPT !.semanticLinks = result]
  ELSE LET link == links[i]
           contractId == Split(link.entity_id, {"#"})[1]
           fetch(id) == Issue(c, [kind |-> "contract", property |-> property,
                                   links |-> links, i |-> i, result |-> result,
                                   contractId |-> id])
           skip == enrichFrom(c, property, links, i + 1,
                              Append(result, Enriched(link, link.entity_id)))
       IN IF link.entity_type = "data_contract_property"
          THEN IF contractId # <<>> THEN fetch(contractId) ELSE skip
          ELSE IF link.entity_type = "data_contract" THEN fetch(link.entity_id)
          ELSE skip

(***************************************************************************)
(* Initial state: the component mounted with a URL, its effects run        *)
(***************************************************************************)
InitialQueries == {<<>>, <<"c">>}

\* the variables take the values of the component c, whose initialQuery
\* prop is iq; the counters of the model start at zero
Start(c, iq, ev) ==
  /\ propertySearchQuery = c.propertySearchQuery
  /\ propertySearchResults = c.propertySearchResults
  /\ isPropertyDropdownOpen = c.isPropertyDropdownOpen
  /\ selectedProperty = c.selectedProperty
  /\ propertyIri = c.propertyIri
  /\ propertyLabel = c.propertyLabel
  /\ propertyNeighbors = c.propertyNeighbors
  /\ semanticLinks = c.semanticLinks
  /\ assignDialogOpen = c.assignDialogOpen
  /\ assignTargetType = c.assignTargetType
  /\ contracts = c.contracts
  /\ selectedContractId = c.selectedContractId
  /\ selectedSchemaName = c.selectedSchemaName
  /\ selectedPropertyEntityId = c.selectedPropertyEntityId
  /\ ucAssetDialogOpen = c.ucAssetDialogOpen
  /\ selectedContractDetail = c.selectedContractDetail
  /\ search = c.search
  /\ initialQuery = iq
  /\ timers = c.timers
  /\ inflight = c.inflight
  /\ nextId = c.nextId
  /\ toast = c.toast
  /\ userEvents = 0
  /\ sinceEdit = IF c.timers = {} THEN DebounceMs ELSE 0
  /\ burstEdits = 0
  /\ issuedSinceEdit = IF c.timers = {} /\ Trim(c.propertySearchQuery) # <<>> THEN 1 ELSE 0
  /\ lastEvent = ev
  /\ workflows = <<>>

Init ==
  \E q \in InitialQueries, url \in InitialUrls :
    Start(Effects(Fresh(q, url), q, TRUE, TRUE, TRUE, TRUE), q, [type |-> "mount"])

(***************************************************************************)
(* Search box: user events, debounce timer, search requests                *)
(***************************************************************************)
\* onChange of the input (line 344)
Type(q) ==
  /\ q # propertySearchQuery
  /\ UserTask([Cur EXCEPT !.propertySearchQuery = q], [type |-> "type"])

\* onFocus of the input (line 345)
Focus ==
  UserTask([Cur EXCEPT !.isPropertyDropdownOpen = Len(propertySearchResults) > 0],
           [type |-> "focus"])

\* onClick of a row of the results dropdown (lines 362-368)
ClickResultWithin(i, budget) ==
  /\ isPropertyDropdownOpen
  /\ i \in 1..Len(propertySearchResults)
  /\ UserTaskWithin(selectProperty(Cur, search, propertySearchResults[i]),
                    [type |-> "select", issuedBefore |-> nextId], budget)

ClickResult(i) == ClickResultWithin(i, MaxRequests)

\* onClick of the clear button (lines 349-355)
ClickClear ==
  /\ propertySearchQuery # <<>> \/ selectedProperty # Null
  /\ UserTask(clearSearch(Cur, search),
              [type |-> "clearSearch",
               hadSelection |-> selectedProperty # Null,
               hadUrl |-> search # <<>>])

\* time passes; a timer runs as soon as its delay has elapsed
Tick ==
  /\ timers # {}
  /\ \A t \in timers : t.elapsed < DebounceMs
  /\ timers' = {[t EXCEPT !.elapsed = @ + TickMs] : t \in timers}
  /\ sinceEdit' = IF sinceEdit + TickMs > DebounceMs THEN DebounceMs
                  ELSE sinceEdit + TickMs
  /\ UNCHANGED <<reactVars, search, initialQuery, inflight, nextId, toast,
                 userEvents, burstEdits, issuedSinceEdit, lastEvent, workflows>>

\* the timer callback searchProperties for a blank query (lines 118-123)
TimerFireBlank(t) ==
  /\ t \in timers /\ t.elapsed >= DebounceMs
  /\ Trim(t.q) = <<>>
  /\ SystemTask(searchProperties([Cur EXCEPT !.timers = @ \ {t}], t),
                [type |-> "searchSkipped", q |-> t.q, edits |-> burstEdits], MaxRequests)


\* the timer callback searchProperties issuing its request (line 126)
TimerFireSearch(t) ==
  /\ t \in timers /\ t.elapsed >= DebounceMs
  /\ Trim(t.q) # <<>>
  /\ SystemTask(searchProperties([Cur EXCEPT !.timers = @ \ {t}], t),
                [type |-> "searchIssued", q |-> t.q, edits |-> burstEdits], MaxRequests)


\* GET properties?q=..&limit=50 returns (lines 127-129)
SearchSucceeds(r, data) ==
  /\ r \in inflight /\ r.kind = "search"
  /\ SystemTask(searchLoaded(Settle(Cur, r), r, data),
                [type |-> "searchLoaded", q |-> r.q, id |-> r.id,
                 issuedBefore |-> nextId],
                MaxRequests)


\* GET properties?q=..&limit=50 throws (lines 130-134)
SearchFails(r) ==
  /\ r \in inflight /\ r.kind = "search"
  /\ SystemTask(searchFailed(Settle(Cur, r)), [type |-> "searchFailed"], MaxRequests)


\* GET properties?q=<iri>&limit=10 returns (lines 96-107)
LookupSucceeds(r, data) ==
  /\ r \in inflight /\ r.kind = "lookup"
  /\ SystemTask(selectProperty(Settle(Cur, r), r.loc, propertyFromIri(r.iri, data)),
                [type |-> "lookupLoaded", iri |-> r.iri, data |-> data], MaxRequests)


\* GET properties?q=<iri>&limit=10 throws (lines 108-110)
LookupFails(r) ==
  /\ r \in inflight /\ r.kind = "lookup"
  /\ SystemTask(Settle(Cur, r),
                [type |-> "lookupFailed", iri |-> r.iri, before |-> selectedProperty],
                MaxRequests)


(***************************************************************************)
(* selectProperty after its first await (lines 167-182)                    *)
(***************************************************************************)
\* a continuation that never asks for the links
linksRequest_skipped(c, r) == c

\* what follows the neighbors try/catch: the links request (line 175)
linksRequest(c, r) == Issue(c, [kind |-> "links", property |-> r.property])

\* a continuation that drops the response of a property no longer selected
neighborsLoaded_current(c, r) ==
  IF c.selectedProperty = r.property
  THEN [c EXCEPT !.propertyNeighbors = NeighborsOf(r.property.value)]
  ELSE c

\* setPropertyNeighbors(res.data || []) (line 168)
neighborsLoaded(c, r) ==
  [c EXCEPT !.propertyNeighbors = NeighborsOf(r.property.value)]

\* GET neighbors returns (line 168)
NeighborsSucceed(r, budget) ==
  /\ r \in inflight /\ r.kind = "neighbors"
  /\ SystemTask(linksRequest(neighborsLoaded(Settle(Cur, r), r), r),
                [type |-> "neighborsLoaded", property |-> r.property], budget)

\* GET neighbors throws (lines 169-172)
NeighborsFail(r, budget) ==
  /\ r \in inflight /\ r.kind = "neighbors"
  /\ SystemTask(linksRequest([Settle(Cur, r) EXCEPT !.propertyNeighbors = <<>>], r),
                [type |-> "neighborsFailed", property |-> r.property], budget)

\* GET links returns (lines 176-178)
LinksSucceed(r, links, budget) ==
  /\ r \in inflight /\ r.kind = "links"
  /\ SystemTask(enrichFrom(Settle(Cur, r), r.property, links, 1, <<>>),
                [type |-> "linksLoaded", links |-> links, i |-> 0,
                 before |-> <<>>, issuedBefore |-> nextId], budget)

\* GET links throws (lines 179-182)
LinksFail(r, budget) ==
  /\ r \in inflight /\ r.kind = "links"
  /\ SystemTask([Settle(Cur, r) EXCEPT !.semanticLinks = <<>>],
                [type |-> "linksFailed"], budget)

\* the loop after the contract fetch of link r.i returned (195-196, 202, 204)
contractLoaded(c, r) ==
  enrichFrom(c, r.property, r.links, r.i + 1,
             Append(r.result,
                    Enriched(r.links[r.i],
                             EntityName(r.links[r.i], ContractDetail(r.contractId)))))

\* a catch that gives up the batch
contractFailed_abort(c, r) == [c EXCEPT !.semanticLinks = <<>>]

\* the loop after the contract fetch of link r.i threw (lines 205-208)
contractFailed(c, r) ==
  enrichFrom(c, r.property, r.links, r.i + 1,
             Append(r.result, Enriched(r.links[r.i], r.links[r.i].entity_id)))

\* the contract fetch of link r.i returns
ContractSucceeds(r, budget) ==
  /\ r \in inflight /\ r.kind = "contract"
  /\ SystemTask(contractLoaded(Settle(Cur, r), r),
                [type |-> "contractLoaded", links |-> r.links, i |-> r.i,
                 before |-> r.result, issuedBefore |-> nextId], budget)

\* the contract fetch of link r.i throws
ContractFails(r, budget) ==
  /\ r \in inflight /\ r.kind = "contract"
  /\ SystemTask(contractFailed(Settle(Cur, r), r),
                [type |-> "contractFailed", links |-> r.links, i |-> r.i,
                 before |-> r.result, issuedBefore |-> nextId], budget)

(***************************************************************************)
(* Specification of the search box: mount, typing, selection, responses    *)
(***************************************************************************)
SearchBox ==
  \/ \E q \in TypedQueries : Type(q)
  \/ Focus
  \/ \E i \in 1..2 : ClickResult(i)
  \/ ClickClear
  \/ Tick
  \/ \E t \in timers : TimerFireBlank(t)
  \/ \E t \in timers : TimerFireSearch(t)

Responses ==
  \/ \E r \in inflight, data \in SearchHits : SearchSucceeds(r, data)
  \/ \E r \in inflight : SearchFails(r)
  \/ \E r \in inflight, data \in SearchHits : LookupSucceeds(r, data)
  \/ \E r \in inflight : LookupFails(r)
  \/ \E r \in inflight : NeighborsSucceed(r, MaxRequests)
  \/ \E r \in inflight : NeighborsFail(r, MaxRequests)
  \/ \E r \in OfKind("links") : \E links \in PlainLinkResponses(r.property.value) :
        LinksSucceed(r, links, MaxRequests)
  \/ \E r \in inflight : LinksFail(r, MaxRequests)

Next == SearchBox \/ Responses

Spec == Init /\ [][Next]_vars

(***************************************************************************)
(* Specification of the search box in use.  The initial state is the       *)
(* component at rest (no timer, no request pending) in one of two states   *)
(* reached from the mounted component with the default props:              *)
(*   - LoadedC: the user typed "c" and the search returned two hits, which *)
(*     the dropdown shows;                                                 *)
(*   - SelectedA: the deep link ?iri=o%23a was opened, resolved to a       *)
(*     synthetic item and searched for; the search for "a - o#a" returned  *)
(*     two hits and reopened the dropdown, and the neighbors and the links *)
(*     of the property are loaded.                                         *)
(***************************************************************************)
LoadedC ==
  [Fresh(<<"c">>, updateUrl(<<>>, [query |-> <<"c">>]))
     EXCEPT !.propertySearchResults = <<PropB, PropA>>,
            !.isPropertyDropdownOpen = TRUE]

SyntheticA == propertyFromIri(PropA.value, <<>>)

SelectedQuery == DisplayLabel(SyntheticA) \o <<" ", "-", " ">> \o SyntheticA.value

SelectedA ==
  [Fresh(SelectedQuery, updateUrl(<<>>, [query |-> SelectedQuery, iri |-> SyntheticA.value]))
     EXCEPT !.propertySearchResults = <<PropB, PropA>>,
            !.isPropertyDropdownOpen = TRUE,
            !.selectedProperty = SyntheticA,
            !.propertyIri = SyntheticA.value,
            !.propertyLabel = DisplayLabel(SyntheticA),
            !.propertyNeighbors = NeighborsOf(SyntheticA.value),
            !.semanticLinks =
               << Enriched([id |-> "l2", entity_id |-> <<"m", "#", "n">>,
                            entity_type |-> "uc_column", iri |-> SyntheticA.value],
                           <<"m", "#", "n">>) >>]

InitInUse ==
  \/ Start(LoadedC, <<>>, [type |-> "searchLoaded", q |-> <<"c">>, id |-> -1,
                          issuedBefore |-> 0])
  \/ Start(SelectedA, <<>>, [type |-> "lookupFailed", iri |-> SyntheticA.value,
                             before |-> SyntheticA])

SpecInUse == InitInUse /\ [][Next]_vars

(***************************************************************************)
(* Link assignment dialog (lines 227-307, 463-560)                         *)
(***************************************************************************)
\* the options of the schema Select: s.name || s.physical_name (lines 248-249)
SchemaName(s) == IF s.name # <<>> THEN s.name ELSE s.physical_name

schemaObjects(detail) == IF detail = Null THEN <<>> ELSE detail.schema_objects

\* the schema objects named selectedSchemaName; find takes the first (line 250)
selectedSchemaProperties(detail, schemaName) ==
  LET objs == schemaObjects(detail)
      hits == {i \in 1..Len(objs) : SchemaName(objs[i]) = schemaName}
      first == CHOOSE i \in hits : \A j \in hits : i <= j
  IN IF hits = {} THEN <<>> ELSE objs[first].properties

\* the value of a property SelectItem (line 530)
PropertyEntityId(contractId, schemaName, propertyName) ==
  contractId \o <<"#">> \o schemaName \o <<"#">> \o propertyName

\* handleAssignTargetTypeChange that keeps the chosen property
handleAssignTargetTypeChange_keep(c, v) ==
  [c EXCEPT !.assignTargetType = v,
            !.selectedContractId = <<>>,
            !.selectedSchemaName = <<>>]

\* handleAssignTargetTypeChange (lines 253-258)
handleAssignTargetTypeChange(c, v) ==
  [c EXCEPT !.assignTargetType = v,
            !.selectedContractId = <<>>,
            !.selectedSchemaName = <<>>,
            !.selectedPropertyEntityId = <<>>]

\* a contract Select that keeps the chosen schema and property
contractSelected_keep(c, v) == [c EXCEPT !.selectedContractId = v]

\* onValueChange of the contract Select (line 493)
contractSelected(c, v) ==
  [c EXCEPT !.selectedContractId = v,
            !.selectedSchemaName = <<>>,
            !.selectedPropertyEntityId = <<>>]

\* onValueChange of the schema Select (line 509)
schemaSelected(c, v) ==
  [c EXCEPT !.selectedSchemaName = v,
            !.selectedPropertyEntityId = <<>>]

ErrorToast(description) == [variant |-> "destructive", description |-> description]

SuccessToast == [variant |-> "default", description |-> "linkedSuccess"]

\* handleAssign without the check of the property entity id
handleAssign_unchecked(c, loc) ==
  IF c.selectedProperty = Null \/ c.assignTargetType = "" THEN c
  ELSE IF c.assignTargetType = "uc_column" THEN c
  ELSE Issue(c, [kind |-> "post", origin |-> "handleAssign",
                 body |-> [entity_id |-> c.selectedPropertyEntityId,
                           entity_type |-> c.assignTargetType,
                           iri |-> c.selectedProperty.value],
                 property |-> c.selectedProperty,
                 loc |-> loc])

\* handleAssign (lines 260-285) up to its await: loc is the location.search
\* the render of the click saw
handleAssign(c, loc) ==
  IF c.selectedProperty = Null \/ c.assignTargetType = "" THEN c
  ELSE IF c.assignTargetType = "data_contract_property"
  THEN IF c.selectedPropertyEntityId = <<>>
       THEN [c EXCEPT !.toast = ErrorToast("selectPropertyTarget")]
       ELSE Issue(c, [kind |-> "post", origin |-> "handleAssign",
                      body |-> [entity_id |-> c.selectedPropertyEntityId,
                                entity_type |-> c.assignTargetType,
                                iri |-> c.selectedProperty.value],
                      property |-> c.selectedProperty,
                      loc |-> loc])
  ELSE IF c.assignTargetType = "uc_column" THEN c
  ELSE Issue(c, [kind |-> "post", origin |-> "handleAssign",
                 body |-> [entity_id |-> <<>>,
                           entity_type |-> c.assignTargetType,
                           iri |-> c.selectedProperty.value],
                 property |-> c.selectedProperty,
                 loc |-> loc])

\* handleAssign after its await that closes the dialog without resetting
\* the cascade
assignSucceeded_noReset(c, r) ==
  selectProperty([c EXCEPT !.toast = SuccessToast,
                           !.assignDialogOpen = FALSE],
                 r.loc, r.property)

\* handleAssign after its await, without error (lines 289-299): the re-run of
\* selectProperty is the one of the render of the click
assignSucceeded(c, r) ==
  selectProperty([c EXCEPT !.toast = SuccessToast,
                           !.assignDialogOpen = FALSE,
                           !.assignTargetType = "",
                           !.selectedContractId = <<>>,
                           !.selectedSchemaName = <<>>,
                           !.selectedPropertyEntityId = <<>>],
                 r.loc, r.property)

\* a catch that also closes the dialog
assignFailed_closing(c, message) ==
  [c EXCEPT !.toast = ErrorToast(IF message # "" THEN message ELSE "assignFailed"),
            !.assignDialogOpen = FALSE]

\* handleAssign, catch (lines 300-306): message is error.message
assignFailed(c, message) ==
  [c EXCEPT !.toast = ErrorToast(IF message # "" THEN message ELSE "assignFailed")]

\* the messages of a failed create-link request: a thrown error (its message
\* may be empty) or the error field of the response
PostErrors == {"", "conflict"}

\* onClick of the assign button of a selected property (line 455)
OpenAssignDialog ==
  /\ selectedProperty # Null
  /\ ~assignDialogOpen
  /\ SystemTask([Cur EXCEPT !.assignDialogOpen = TRUE],
                [type |-> "openDialog"], MaxAssignRequests)

\* Cancel, or onOpenChange(false) of the dialog (lines 463, 553)
CloseAssignDialog ==
  /\ assignDialogOpen
  /\ SystemTask([Cur EXCEPT !.assignDialogOpen = FALSE],
                [type |-> "closeDialog"], MaxAssignRequests)

\* onValueChange of the target type Select (line 478); a Select reports a
\* value only when it differs from the chosen one
TargetTypeChange(v) ==
  /\ assignDialogOpen
  /\ v # assignTargetType
  /\ SystemTask(handleAssignTargetTypeChange(Cur, v),
                [type |-> "targetType", v |-> v,
                 had |-> selectedPropertyEntityId # <<>>], MaxAssignRequests)

\* onValueChange of the contract Select (lines 489-504)
ContractSelect(i) ==
  /\ assignDialogOpen
  /\ assignTargetType = "data_contract_property"
  /\ i \in 1..Len(contracts)
  /\ contracts[i].id # selectedContractId
  /\ SystemTask(contractSelected(Cur, contracts[i].id),
                [type |-> "contract", v |-> contracts[i].id,
                 had |-> selectedPropertyEntityId # <<>>], MaxAssignRequests)

\* onValueChange of the schema Select (lines 506-519)
SchemaSelect(i) ==
  /\ assignDialogOpen
  /\ assignTargetType = "data_contract_property"
  /\ selectedContractId # <<>>
  /\ i \in 1..Len(schemaObjects(selectedContractDetail))
  /\ SchemaName(schemaObjects(selectedContractDetail)[i]) # selectedSchemaName
  /\ SystemTask(schemaSelected(Cur, SchemaName(schemaObjects(selectedContractDetail)[i])),
                [type |-> "schema",
                 v |-> SchemaName(schemaObjects(selectedContractDetail)[i]),
                 had |-> selectedPropertyEntityId # <<>>], MaxAssignRequests)

\* onValueChange of the property Select (lines 521-538)
PropertySelect(i) ==
  /\ assignDialogOpen
  /\ assignTargetType = "data_contract_property"
  /\ selectedSchemaName # <<>>
  /\ i \in 1..Len(selectedSchemaProperties(selectedContractDetail, selectedSchemaName))
  /\ PropertyEntityId(selectedContractId, selectedSchemaName,
                      selectedSchemaProperties(selectedContractDetail,
                                               selectedSchemaName)[i].name)
       # selectedPropertyEntityId
  /\ SystemTask([Cur EXCEPT !.selectedPropertyEntityId =
                    PropertyEntityId(selectedContractId, selectedSchemaName,
                       selectedSchemaProperties(selectedContractDetail,
                                                selectedSchemaName)[i].name)],
                [type |-> "property"], MaxAssignRequests)

\* handleAssign is called.  The button that calls it (lines 554-555) is
\* rendered on the contract-property path and disabled while no property
\* entity is chosen; the handler is modelled for every state of the open
\* dialog, which its own checks (lines 261-278) provide for.
HandleAssign ==
  /\ assignDialogOpen
  /\ SystemTask(handleAssign(Cur, search),
                [type |-> "handleAssign",
                 posted |-> handleAssign(Cur, search).nextId # nextId],
                MaxAssignRequests)

\* POST /api/semantic-links/ returns without error (lines 287-299)
PostSucceeds(r) ==
  /\ r \in inflight /\ r.kind = "post" /\ r.origin = "handleAssign"
  /\ SystemTask(assignSucceeded(Settle(Cur, r), r),
                [type |-> "assignSucceeded", property |-> r.property],
                MaxAssignRequests)

\* POST /api/semantic-links/ throws, or returns an error (lines 287, 300-306)
PostFails(r, message) ==
  /\ r \in inflight /\ r.kind = "post" /\ r.origin = "handleAssign"
  /\ SystemTask(assignFailed(Settle(Cur, r), message),
                [type |-> "assignFailed", message |-> message], MaxAssignRequests)

\* GET /api/data-contracts returns (line 231)
ContractsLoaded(r) ==
  /\ r \in inflight /\ r.kind = "contracts"
  /\ SystemTask([Settle(Cur, r) EXCEPT !.contracts = ContractList],
                [type |-> "contractsLoaded"], MaxAssignRequests)

\* GET /api/data-contracts throws (line 232)
ContractsFailed(r) ==
  /\ r \in inflight /\ r.kind = "contracts"
  /\ SystemTask([Settle(Cur, r) EXCEPT !.contracts = <<>>],
                [type |-> "contractsFailed"], MaxAssignRequests)

\* GET /api/data-contracts/<id> returns (line 244)
DetailLoaded(r) ==
  /\ r \in inflight /\ r.kind = "detail"
  /\ SystemTask([Settle(Cur, r) EXCEPT !.selectedContractDetail = ContractDetail(r.contractId)],
                [type |-> "detailLoaded"], MaxAssignRequests)

\* GET /api/data-contracts/<id> throws (line 245)
DetailFailed(r) ==
  /\ r \in inflight /\ r.kind = "detail"
  /\ SystemTask([Settle(Cur, r) EXCEPT !.selectedContractDetail = Null],
                [type |-> "detailFailed"], MaxAssignRequests)

(***************************************************************************)
(* Specification of the assign dialog.  In its initial states a property   *)
(* is selected and the component is at rest.  The dialog is modal: while   *)
(* it is in use no event reaches the search box.                           *)
(***************************************************************************)
Dialog ==
  \/ OpenAssignDialog
  \/ CloseAssignDialog
  \/ \E v \in {"data_contract_property", "uc_column"} : TargetTypeChange(v)
  \/ \E i \in 1..2 : ContractSelect(i)
  \/ \E i \in 1..1 : SchemaSelect(i)
  \/ \E i \in 1..1 : PropertySelect(i)
  \/ HandleAssign

DialogResponses ==
  \/ \E r \in inflight : PostSucceeds(r)
  \/ \E r \in inflight, message \in PostErrors : PostFails(r, message)
  \/ \E r \in inflight : ContractsLoaded(r)
  \/ \E r \in inflight : ContractsFailed(r)
  \/ \E r \in inflight : DetailLoaded(r)
  \/ \E r \in inflight : DetailFailed(r)
  \/ \E r \in inflight : NeighborsSucceed(r, MaxAssignRequests)
  \/ \E r \in inflight : NeighborsFail(r, MaxAssignRequests)
  \/ \E r \in OfKind("links") : \E links \in PlainLinkResponses(r.property.value) :
        LinksSucceed(r, links, MaxAssignRequests)
  \/ \E r \in inflight : LinksFail(r, MaxAssignRequests)

NextAssign == Dialog \/ DialogResponses

\* SelectedA with the dialog opened, the property target type chosen, the
\* list of contracts loaded and the first contract chosen and loaded
DialogReadyA ==
  [SelectedA EXCEPT !.assignDialogOpen = TRUE,
                    !.assignTargetType = "data_contract_property",
                    !.contracts = ContractList,
                    !.selectedContractId = ContractList[1].id,
                    !.selectedContractDetail = ContractDetail(ContractList[1].id)]

InitAssign ==
  \/ Start(SelectedA, <<>>, [type |-> "closeDialog"])
  \/ Start(DialogReadyA, <<>>, [type |-> "detailLoaded"])

SpecAssign == InitAssign /\ [][NextAssign]_vars

(***************************************************************************)
(* UC-column path of the assign dialog (lines 309-335, 544-569)            *)
(***************************************************************************)
\* the assets the asset browser may hand to onSelect: a column of a table
\* (full_name is catalog.schema.table.column) and a table (no column_name)
ColumnAsset ==
  [full_name |-> <<"m", ".", "n">>, column_name |-> <<"n">>, asset_type |-> "column"]

TableAsset ==
  [full_name |-> <<"m">>, column_name |-> <<>>, asset_type |-> "table"]

UCAssets == {ColumnAsset, TableAsset}

\* handleUCColumnSelect posting the column name instead of the full name
handleUCColumnSelect_columnName(c, loc, asset) ==
  IF asset.column_name = <<>> \/ c.selectedProperty = Null THEN c
  ELSE Issue(c, [kind |-> "post", origin |-> "handleUCColumnSelect",
                 body |-> [entity_id |-> asset.column_name,
                           entity_type |-> "uc_column",
                           iri |-> c.selectedProperty.value],
                 property |-> c.selectedProperty,
                 loc |-> loc])

\* handleUCColumnSelect (lines 309-317) up to the post: loc is the
\* location.search the render that created the handler saw
handleUCColumnSelect(c, loc, asset) ==
  IF asset.column_name = <<>> \/ c.selectedProperty = Null THEN c
  ELSE Issue(c, [kind |-> "post", origin |-> "handleUCColumnSelect",
                 body |-> [entity_id |-> asset.full_name,
                           entity_type |-> "uc_column",
                           iri |-> c.selectedProperty.value],
                 property |-> c.selectedProperty,
                 loc |-> loc])

\* handleUCColumnSelect, then (lines 318-327)
ucAssignSucceeded(c, r) ==
  selectProperty([c EXCEPT !.toast = SuccessToast,
                           !.assignDialogOpen = FALSE,
                           !.ucAssetDialogOpen = FALSE],
                 r.loc, r.property)

\* handleUCColumnSelect, catch (lines 328-334)
ucAssignFailed(c, message) ==
  [c EXCEPT !.toast = ErrorToast(IF message # "" THEN message ELSE "assignFailed")]

\* onClick of the browse button (lines 544-549)
BrowseUC ==
  /\ assignDialogOpen
  /\ assignTargetType = "uc_column"
  /\ ~ucAssetDialogOpen
  /\ SystemTask([Cur EXCEPT !.ucAssetDialogOpen = TRUE],
                [type |-> "browseUC"], MaxAssignRequests)

\* onOpenChange(false) of the asset browser (line 564)
CloseUCAssetDialog ==
  /\ ucAssetDialogOpen
  /\ SystemTask([Cur EXCEPT !.ucAssetDialogOpen = FALSE],
                [type |-> "closeUC"], MaxAssignRequests)

\* onSelect of the asset browser (line 565)
UCColumnSelect(asset) ==
  /\ ucAssetDialogOpen
  /\ SystemTask(handleUCColumnSelect(Cur, search, asset),
                [type |-> "ucSelect", asset |-> asset, issuedBefore |-> nextId],
                MaxAssignRequests)

\* the POST of handleUCColumnSelect returns without error (lines 318-327)
UCPostSucceeds(r) ==
  /\ r \in inflight /\ r.kind = "post" /\ r.origin = "handleUCColumnSelect"
  /\ SystemTask(ucAssignSucceeded(Settle(Cur, r), r),
                [type |-> "ucAssignSucceeded", property |-> r.property],
                MaxAssignRequests)

\* the POST of handleUCColumnSelect throws, or returns an error (319, 328-334)
UCPostFails(r, message) ==
  /\ r \in inflight /\ r.kind = "post" /\ r.origin = "handleUCColumnSelect"
  /\ SystemTask(ucAssignFailed(Settle(Cur, r), message),
                [type |-> "ucAssignFailed", message |-> message], MaxAssignRequests)

(***************************************************************************)
(* Specification of the UC-column path: a property is selected, the assign *)
(* dialog is open and the component is at rest.                            *)
(***************************************************************************)
UCDialog ==
  \/ OpenAssignDialog
  \/ CloseAssignDialog
  \/ \E v \in {"data_contract_property", "uc_column"} : TargetTypeChange(v)
  \/ HandleAssign
  \/ BrowseUC
  \/ CloseUCAssetDialog
  \/ \E asset \in UCAssets : UCColumnSelect(asset)

UCResponses ==
  \/ \E r \in inflight : UCPostSucceeds(r)
  \/ \E r \in inflight, message \in PostErrors : UCPostFails(r, message)
  \/ \E r \in inflight : ContractsLoaded(r)
  \/ \E r \in inflight : ContractsFailed(r)
  \/ \E r \in inflight : NeighborsSucceed(r, MaxAssignRequests)
  \/ \E r \in inflight : NeighborsFail(r, MaxAssignRequests)
  \/ \E r \in OfKind("links") : \E links \in PlainLinkResponses(r.property.value) :
        LinksSucceed(r, links, MaxAssignRequests)
  \/ \E r \in inflight : LinksFail(r, MaxAssignRequests)

NextUC == UCDialog \/ UCResponses

\* SelectedA with the assign dialog opened
DialogOpenA == [SelectedA EXCEPT !.assignDialogOpen = TRUE]

InitUC == Start(DialogOpenA, <<>>, [type |-> "openDialog"])

SpecUC == InitUC /\ [][NextUC]_vars

(***************************************************************************)
(* Specification of link enrichment: a property is selected, its neighbors *)
(* are loaded and its links request is in flight; the request returns a    *)
(* batch of links, whose contract fetches then return or throw one by one. *)
(***************************************************************************)
\* the links a body of GET /api/semantic-links/iri/<iri> is made of
LinkKinds(iri) ==
  { [id |-> "l1", entity_id |-> <<"c", "#", "s", "#", "p">>,
     entity_type |-> "data_contract_property", iri |-> iri],
    [id |-> "l2", entity_id |-> <<"m", "#", "n">>,
     entity_type |-> "uc_column", iri |-> iri],
    [id |-> "l3", entity_id |-> <<"e">>,
     entity_type |-> "data_contract_property", iri |-> iri],
    [id |-> "l4", entity_id |-> <<"#", "s">>,
     entity_type |-> "data_contract_property", iri |-> iri],
    [id |-> "l5", entity_id |-> <<"d">>,
     entity_type |-> "data_contract", iri |-> iri],
    [id |-> "l6", entity_id |-> <<"x", "#", "y">>,
     entity_type |-> "glossary_term", iri |-> iri],
    [id |-> "l7", entity_id |-> <<"d", "#", "s", "#", "p", " ">>,
     entity_type |-> "data_contract_property", iri |-> iri] }

\* the bodies of at most MaxLinks links
LinkBatches(iri) ==
  UNION {[1..n -> LinkKinds(iri)] : n \in 0..MaxLinks}

\* SelectedA before its links arrived
LinksPendingA ==
  Issue([SelectedA EXCEPT !.semanticLinks = <<>>],
        [kind |-> "links", property |-> SyntheticA])

InitEnrich ==
  Start(LinksPendingA, <<>>, [type |-> "neighborsLoaded", property |-> SyntheticA])

NextEnrich ==
  \/ \E r \in OfKind("links") : \E links \in LinkBatches(r.property.value) :
        LinksSucceed(r, links, MaxLinks + 1)
  \/ \E r \in inflight : LinksFail(r, MaxLinks + 1)
  \/ \E r \in inflight : ContractSucceeds(r, MaxLinks + 1)
  \/ \E r \in inflight : ContractFails(r, MaxLinks + 1)

SpecEnrich == InitEnrich /\ [][NextEnrich]_vars

(***************************************************************************)
(* Specification of updateUrl alone: location.search is drawn from a set   *)
(* of search strings and updateUrl is applied to it, with each shape of    *)
(* updates its callers pass (lines 121, 129, 149, 164).                    *)
(***************************************************************************)
\* values of a parameter: empty, plain, with a space, with "#", with "&" and "="
UrlValues ==
  {<<>>, <<"a">>, <<"a", " ", "b">>, PropA.value, <<"x", "&", "y", "=", "z">>}

\* the updates passed to updateUrl
UrlUpdates ==
  {[query |-> q] : q \in UrlValues}
    \cup {[iri |-> i] : i \in UrlValues}
    \cup {[query |-> q, iri |-> i] : q \in UrlValues, i \in UrlValues}

\* search strings the view is loaded with: those updateUrl writes, one with
\* a foreign parameter, one with an empty and one with a repeated parameter
UrlInputs ==
  {updateUrl(<<>>, u) : u \in UrlUpdates}
    \cup { <<"?", "z", "=", "1">>,
           <<"?", "q", "u", "e", "r", "y", "=", "&", "i", "r", "i", "=", "a">>,
           <<"?", "i", "r", "i", "=", "a", "&", "i", "r", "i", "=", "b">> }

InitUrl ==
  \E url \in UrlInputs : Start(Fresh(<<>>, url), <<>>, [type |-> "mount"])

\* updateUrl(updates) in a render whose location.search is search
ApplyUpdateUrl(updates) ==
  /\ search' = updateUrl(search, updates)
  /\ lastEvent' = [type |-> "updateUrl", loc |-> search, updates |-> updates]
  /\ UNCHANGED <<reactVars, initialQuery, timers, inflight, nextId, toast,
                 userEvents, sinceEdit, burstEdits, issuedSinceEdit, workflows>>

NextUrl == \E updates \in UrlUpdates : ApplyUpdateUrl(updates)

SpecUrl == InitUrl /\ [][NextUrl]_vars

(***************************************************************************)
(* Specification of overlapping selections: the user has just clicked the  *)
(* hit o#a, whose requests are in flight, and goes on to another hit       *)
(* before the debounce delay has elapsed and before the lookups answer.    *)
(***************************************************************************)
\* LoadedC after a click on the hit o#a and the render that follows
SelectingA ==
  Effects(selectProperty(LoadedC, LoadedC.search, PropA), <<>>,
          TRUE, TRUE, FALSE, FALSE)

InitRace == Start(SelectingA, <<>>, [type |-> "select", issuedBefore |-> 0])

NextRace ==
  \/ Focus
  \/ \E i \in 1..2 : ClickResultWithin(i, MaxRaceRequests)
  \/ \E r \in inflight : NeighborsSucceed(r, MaxRaceRequests)
  \/ \E r \in inflight : NeighborsFail(r, MaxRaceRequests)
  \/ \E r \in OfKind("links") : \E links \in PlainLinkResponses(r.property.value) :
        LinksSucceed(r, links, MaxRaceRequests)
  \/ \E r \in inflight : LinksFail(r, MaxRaceRequests)

SpecRace == InitRace /\ [][NextRace]_vars

(***************************************************************************)
(* Specification of the component left alone after it is mounted, with a   *)
(* deep link or without: every timer that is due runs and every request    *)
(* settles.  The requests in flight are numbered 0, 1, .. in the order of   *)
(* their issue after every task, so that a behaviour that goes on for ever *)
(* comes back to a state it was in.                                        *)
(***************************************************************************)
\* the requests in flight numbered from 0 in the order of their issue
Renumbered(c) ==
  [c EXCEPT !.inflight =
               {[r EXCEPT !.id = Cardinality({x \in c.inflight : x.id < r.id})] :
                  r \in c.inflight},
            !.nextId = Cardinality(c.inflight)]

\* a task started by a timer or by a response; it is left out when more than
\* MaxInFlight requests would be in flight after it
RenumberedTask(c1, ev) ==
  /\ userEvents' = userEvents
  /\ Rendered(c1, Renumbered(Render(Cur, c1)), ev, MaxInFlight)

\* lines 118-123
TimerFireBlankAlone(t) ==
  /\ t \in timers /\ t.elapsed >= DebounceMs
  /\ Trim(t.q) = <<>>
  /\ RenumberedTask(searchProperties([Cur EXCEPT !.timers = @ \ {t}], t),
                    [type |-> "searchSkipped", q |-> t.q])

\* line 126
TimerFireSearchAlone(t) ==
  /\ t \in timers /\ t.elapsed >= DebounceMs
  /\ Trim(t.q) # <<>>
  /\ RenumberedTask(searchProperties([Cur EXCEPT !.timers = @ \ {t}], t),
                    [type |-> "searchIssued", q |-> t.q])

\* lines 127-129
SearchSucceedsAlone(r, data) ==
  /\ r \in inflight /\ r.kind = "search"
  /\ RenumberedTask(searchLoaded(Settle(Cur, r), r, data),
                    [type |-> "searchLoaded", q |-> r.q])

\* lines 130-134
SearchFailsAlone(r) ==
  /\ r \in inflight /\ r.kind = "search"
  /\ RenumberedTask(searchFailed(Settle(Cur, r)), [type |-> "searchFailed"])

\* lines 96-107
LookupSucceedsAlone(r, data) ==
  /\ r \in inflight /\ r.kind = "lookup"
  /\ RenumberedTask(selectProperty(Settle(Cur, r), r.loc, propertyFromIri(r.iri, data)),
                    [type |-> "lookupLoaded", iri |-> r.iri, loc |-> r.loc])

\* lines 108-110
LookupFailsAlone(r) ==
  /\ r \in inflight /\ r.kind = "lookup"
  /\ RenumberedTask(Settle(Cur, r), [type |-> "lookupFailed", iri |-> r.iri])

\* line 168, then line 175
NeighborsSucceedAlone(r) ==
  /\ r \in inflight /\ r.kind = "neighbors"
  /\ RenumberedTask(linksRequest(neighborsLoaded(Settle(Cur, r), r), r),
                    [type |-> "neighborsLoaded", property |-> r.property])

\* lines 169-172, then line 175
NeighborsFailAlone(r) ==
  /\ r \in inflight /\ r.kind = "neighbors"
  /\ RenumberedTask(linksRequest([Settle(Cur, r) EXCEPT !.propertyNeighbors = <<>>], r),
                    [type |-> "neighborsFailed", property |-> r.property])

\* lines 176-178
LinksSucceedAlone(r, links) ==
  /\ r \in inflight /\ r.kind = "links"
  /\ RenumberedTask(enrichFrom(Settle(Cur, r), r.property, links, 1, <<>>),
                    [type |-> "linksLoaded"])

\* lines 179-182
LinksFailAlone(r) ==
  /\ r \in inflight /\ r.kind = "links"
  /\ RenumberedTask([Settle(Cur, r) EXCEPT !.semanticLinks = <<>>],
                    [type |-> "linksFailed"])

\* the component mounted with a deep link
InitAlone ==
  \E q \in InitialQueries, url \in {updateUrl(<<>>, [iri |-> PropA.value])} :
    Start(Renumbered(Effects(Fresh(q, url), q, TRUE, TRUE, TRUE, TRUE)), q,
          [type |-> "mount"])

\* the backend answers a search and a lookup with both concepts and a links
\* request with no link, or fails
NextAlone ==
  \/ Tick
  \/ \E t \in timers : TimerFireBlankAlone(t)
  \/ \E t \in timers : TimerFireSearchAlone(t)
  \/ \E r \in inflight : SearchSucceedsAlone(r, <<PropB, PropA>>)
  \/ \E r \in inflight : SearchFailsAlone(r)
  \/ \E r \in inflight : LookupSucceedsAlone(r, <<PropB, PropA>>)
  \/ \E r \in inflight : LookupFailsAlone(r)
  \/ \E r \in inflight : NeighborsSucceedAlone(r)
  \/ \E r \in inflight : NeighborsFailAlone(r)
  \/ \E r \in inflight : LinksSucceedAlone(r, <<>>)
  \/ \E r \in inflight : LinksFailAlone(r)

\* time passes while a timer is pending
SpecAlone == InitAlone /\ [][NextAlone]_vars /\ WF_vars(Tick)

(***************************************************************************)
(* The workflow list of the compliance view (views/compliance.tsx); the    *)
(* workflow list of the settings (handleDelete, lines 171-195 of its file) *)
(* has the same handlers.  await apiDeleteApi(..) resolves to a response   *)
(* that carries an error when the request failed (it is read at lines      *)
(* 265-269), or rejects.                                                   *)
(***************************************************************************)
\* body of GET /api/workflows
WorkflowsBody ==
  << [id |-> "w1", is_default |-> TRUE, is_active |-> TRUE],
     [id |-> "w2", is_default |-> FALSE, is_active |-> TRUE],
     [id |-> "w3", is_default |-> FALSE, is_active |-> FALSE] >>

\* prev.filter(w => w.id !== workflow.id), line 385
withoutWorkflow(prev, workflow) ==
  SelectSeq(prev, LAMBDA w : w.id # workflow.id)

\* lines 384-385: the response is awaited and not looked at
deleteAnswered(prev, workflow, error) ==
  withoutWorkflow(prev, workflow)

\* prev.map(w => w.id === workflow.id ? response.data : w), lines 326-328
withWorkflow(prev, data) ==
  [i \in 1..Len(prev) |-> IF prev[i].id = data.id THEN data ELSE prev[i]]

\* a task of the workflow list; the search box is not on its page
WorkflowTask(list, requests, shown, ev) ==
  /\ workflows' = list
  /\ inflight' = requests
  /\ nextId' = IF requests \subseteq inflight THEN nextId ELSE nextId + 1
  /\ nextId' <= MaxWorkflowRequests
  /\ toast' = shown
  /\ lastEvent' = ev
  /\ UNCHANGED <<reactVars, search, initialQuery, timers, sinceEdit, burstEdits,
                 issuedSinceEdit>>

\* the view is mounted: loadWorkflows(), lines 177-179 and 197
InitWorkflows ==
  LET c == Fresh(<<>>, <<>>)
  IN Start([c EXCEPT !.inflight = {[kind |-> "workflows", id |-> 0]}, !.nextId = 1],
           <<>>, [type |-> "mount"])

\* lines 180-183: the list is replaced by the workflows of the response's
\* data; a response without data leaves it
WorkflowsLoaded(r, hasData) ==
  /\ r \in inflight /\ r.kind = "workflows"
  /\ userEvents' = userEvents
  /\ WorkflowTask(IF hasData THEN WorkflowsBody ELSE workflows, inflight \ {r}, toast,
                  [type |-> "workflowsLoaded", id |-> r.id, hasData |-> hasData])

\* lines 184-189
WorkflowsLoadRejects(r) ==
  /\ r \in inflight /\ r.kind = "workflows"
  /\ userEvents' = userEvents
  /\ WorkflowTask(workflows, inflight \ {r}, ErrorToast("Failed to load workflows"),
                  [type |-> "workflowsLoadRejected", id |-> r.id])

\* the Switch of a row, line 544: handleToggleWorkflowActive up to its await
\* (lines 319-324)
ClickToggleWorkflow(i) ==
  /\ i \in 1..Len(workflows)
  /\ userEvents < MaxUserEvents
  /\ userEvents' = userEvents + 1
  /\ WorkflowTask(workflows,
                  inflight \cup {[kind |-> "toggleWorkflow", workflow |-> workflows[i],
                                  id |-> nextId]},
                  toast, [type |-> "toggleClicked", id |-> nextId])

\* lines 325-333: the entry is replaced by the response's workflow
ToggleAnswered(r) ==
  /\ r \in inflight /\ r.kind = "toggleWorkflow"
  /\ userEvents' = userEvents
  /\ LET data == [r.workflow EXCEPT !.is_active = ~@]
     IN WorkflowTask(withWorkflow(workflows, data), inflight \ {r},
                     [variant |-> "default",
                      description |-> IF data.is_active THEN "Workflow enabled"
                                      ELSE "Workflow disabled"],
                     [type |-> "toggleAnswered", id |-> r.id])

\* lines 334-340
ToggleRejects(r) ==
  /\ r \in inflight /\ r.kind = "toggleWorkflow"
  /\ userEvents' = userEvents
  /\ WorkflowTask(workflows, inflight \ {r},
                  ErrorToast("Failed to update workflow status"),
                  [type |-> "toggleRejected", id |-> r.id])

\* the Delete item of a row, lines 577-580, disabled for a default workflow:
\* handleDeleteWorkflow up to its await (lines 373-384)
ClickDeleteWorkflow(i) ==
  /\ i \in 1..Len(workflows)
  /\ ~workflows[i].is_default
  /\ userEvents < MaxUserEvents
  /\ userEvents' = userEvents + 1
  /\ IF workflows[i].is_default
     THEN WorkflowTask(workflows, inflight, ErrorToast("Cannot Delete"),
                       [type |-> "deleteRefused", id |-> nextId])
     ELSE WorkflowTask(workflows,
                       inflight \cup {[kind |-> "deleteWorkflow",
                                       workflow |-> workflows[i], id |-> nextId]},
                       toast, [type |-> "deleteClicked", id |-> nextId])

\* lines 384-389: the await resolves to a response without an error ("") or
\* with one
DeleteAnswered(r, error) ==
  /\ r \in inflight /\ r.kind = "deleteWorkflow"
  /\ userEvents' = userEvents
  /\ WorkflowTask(deleteAnswered(workflows, r.workflow, error), inflight \ {r},
                  [variant |-> "default", description |-> "Workflow deleted"],
                  [type |-> "deleteAnswered", id |-> r.id, error |-> error])

\* lines 390-396: the await rejects
DeleteRejects(r) ==
  /\ r \in inflight /\ r.kind = "deleteWorkflow"
  /\ userEvents' = userEvents
  /\ WorkflowTask(workflows, inflight \ {r}, ErrorToast("Failed to delete workflow"),
                  [type |-> "deleteRejected", id |-> r.id])

NextWorkflows ==
  \/ \E r \in inflight, hasData \in BOOLEAN : WorkflowsLoaded(r, hasData)
  \/ \E r \in inflight : WorkflowsLoadRejects(r)
  \/ \E i \in 1..Len(WorkflowsBody) : ClickToggleWorkflow(i)
  \/ \E r \in inflight : ToggleAnswered(r)
  \/ \E r \in inflight : ToggleRejects(r)
  \/ \E i \in 1..Len(WorkflowsBody) : ClickDeleteWorkflow(i)
  \/ \E r \in inflight, error \in {"", "e"} : DeleteAnswered(r, error)
  \/ \E r \in inflight : DeleteRejects(r)

SpecWorkflows == InitWorkflows /\ [][NextWorkflows]_vars

(***************************************************************************)
(* Properties                                                              *)
(***************************************************************************)
\* C1: whenever a property is selected, the iri parameter of the URL equals
\* selectedProperty.value
C1_UrlIriMatchesSelection ==
  selectedProperty # Null => UrlIri(search) = selectedProperty.value

\* the searches awaiting their response
SearchRequests == OfKind("search")

\* C2 as stated: at most one search timer is pending; a search request is
\* issued for the current query, 250ms after its last change; once the timer
\* of a non-empty query has run, exactly one request was issued for it
C2_OneRequestPerNonEmptyBurst ==
  /\ Cardinality(timers) <= 1
  /\ issuedSinceEdit <= 1
  /\ lastEvent.type = "searchIssued" =>
       /\ lastEvent.q = propertySearchQuery
       /\ sinceEdit = DebounceMs
       /\ \E r \in SearchRequests : r.id = nextId - 1 /\ r.q = propertySearchQuery
  /\ (timers = {} /\ propertySearchQuery # <<>>) => issuedSinceEdit = 1

\* C2 (amended): the same for every query that is not empty or whitespace-only;
\* for a whitespace-only query no request is issued
C2_OneRequestPerNonBlankBurst ==
  /\ Cardinality(timers) <= 1
  /\ issuedSinceEdit <= 1
  /\ lastEvent.type = "searchIssued" =>
       /\ lastEvent.q = propertySearchQuery
       /\ sinceEdit = DebounceMs
       /\ \E r \in SearchRequests : r.id = nextId - 1 /\ r.q = propertySearchQuery
  /\ (timers = {} /\ Trim(propertySearchQuery) # <<>>) => issuedSinceEdit = 1
  /\ (timers = {} /\ Trim(propertySearchQuery) = <<>>) => issuedSinceEdit = 0

\* a burst of two or more edits ended in a request
C2_Witness ==
  /\ lastEvent.type = "searchIssued"
  /\ lastEvent.edits = 2
  /\ issuedSinceEdit = 1
  /\ timers = {}

\* C3: when the timer runs for an empty or whitespace-only query, no search
\* request is issued, the results are empty, the dropdown is closed and the
\* URL has no query parameter
C3_BlankQueryClears ==
  /\ \A r \in SearchRequests : Trim(r.q) # <<>>
  /\ lastEvent.type = "searchSkipped" =>
       /\ Trim(lastEvent.q) = <<>>
       /\ issuedSinceEdit = 0
       /\ propertySearchResults = <<>>
       /\ ~isPropertyDropdownOpen
       /\ UrlQuery(search) = <<>>

\* the timer ran for a whitespace-only query
C3_Witness ==
  /\ lastEvent.type = "searchSkipped"
  /\ lastEvent.q = <<" ">>

\* C4: clearSearch leaves the URL with neither query nor iri, and no selected
\* property, IRI, neighbors or links
C4_ClearSearchClears ==
  lastEvent.type = "clearSearch" =>
    /\ UrlQuery(search) = <<>>
    /\ UrlIri(search) = <<>>
    /\ search = <<>>
    /\ selectedProperty = Null
    /\ propertyIri = <<>>
    /\ propertyNeighbors = <<>>
    /\ semanticLinks = <<>>

\* clearSearch ran with a property selected and parameters in the URL
C4_Witness ==
  /\ lastEvent.type = "clearSearch"
  /\ lastEvent.hadSelection
  /\ lastEvent.hadUrl

\* the neighbors and the links shown were fetched for the IRI iri
DataOf(iri) ==
  /\ \A i \in 1..Len(propertyNeighbors) : propertyNeighbors[i].display = iri
  /\ \A i \in 1..Len(semanticLinks) : semanticLinks[i].iri = iri

\* C5: in no state is a property selected while propertyNeighbors or
\* semanticLinks hold the data of another property
C5_NoDataOfPriorSelection ==
  selectedProperty # Null => DataOf(selectedProperty.value)

\* the last segment of an IRI delimited by / or #
LastSegment(x) ==
  LET delims == {i \in 1..Len(x) : x[i] \in {"/", "#"}}
      last == CHOOSE i \in delims : \A j \in delims : j <= i
  IN IF delims = {} THEN x ELSE SubSeq(x, last + 1, Len(x))

\* the positions of the hits whose value is the IRI
Matches(data, iri) == {i \in 1..Len(data) : data[i].value = iri}

\* what C6 says of the selected property after a lookup of iri returned data
ResolvedFromHits(iri, data, lastOrIri) ==
  /\ selectedProperty # Null
  /\ selectedProperty.value = iri
  /\ IF Matches(data, iri) # {}
     THEN \E i \in Matches(data, iri) :
            /\ selectedProperty = data[i]
            /\ \A j \in Matches(data, iri) : i <= j
     ELSE selectedProperty.label = lastOrIri

C7_CascadeResetsDownstream ==
  /\ lastEvent.type = "targetType" =>
        /\ assignTargetType = lastEvent.v
        /\ selectedContractId = <<>>
        /\ selectedSchemaName = <<>>
        /\ selectedPropertyEntityId = <<>>
  /\ lastEvent.type = "contract" =>
        /\ selectedContractId = lastEvent.v
        /\ selectedSchemaName = <<>>
        /\ selectedPropertyEntityId = <<>>
  /\ lastEvent.type = "schema" =>
        /\ selectedSchemaName = lastEvent.v
        /\ selectedPropertyEntityId = <<>>

\* the target type was changed while a contract, a schema and a property
\* were chosen
C7_Witness ==
  /\ lastEvent.type = "targetType"
  /\ lastEvent.had
  /\ assignTargetType = "uc_column"

\* C8: handleAssign issues no create-link POST unless a property is
\* selected, a target type is chosen and, on the contract-property path,
\* selectedPropertyEntityId is non-empty; every POST it issues carries
\* {entity_id: selectedPropertyEntityId, entity_type:
\* 'data_contract_property', iri: selectedProperty.value}.
C8_PostOnlyWhenResolved ==
  /\ \A r \in OfKind("post") : r.origin = "handleAssign" =>
        /\ r.body.entity_id # <<>>
        /\ r.body.entity_type = "data_contract_property"
        /\ r.body.iri = r.property.value
  /\ lastEvent.type = "handleAssign" /\ lastEvent.posted =>
        /\ selectedProperty # Null
        /\ assignTargetType # ""
        /\ selectedPropertyEntityId # <<>>
        /\ \E r \in OfKind("post") :
              /\ r.id = nextId - 1
              /\ r.origin = "handleAssign"
              /\ r.body = [entity_id |-> selectedPropertyEntityId,
                           entity_type |-> "data_contract_property",
                           iri |-> selectedProperty.value]

\* handleAssign has just issued its POST
C8_Witness ==
  /\ lastEvent.type = "handleAssign"
  /\ lastEvent.posted
  /\ \E r \in OfKind("post") : r.id = nextId - 1 /\ r.origin = "handleAssign"

\* C9: when the create-link request of handleAssign fails (the call is
\* rejected or the response carries an error), an error notification is
\* shown, the assignment dialog stays as it is, and assignTargetType,
\* selectedContractId, selectedSchemaName, selectedPropertyEntityId,
\* selectedProperty, propertyNeighbors and semanticLinks are unchanged.
C9_FailedAssignKeepsState ==
  [][lastEvent'.type = "assignFailed" /\ inflight' # inflight =>
       /\ toast'.variant = "destructive"
       /\ UNCHANGED <<assignDialogOpen, assignTargetType, selectedContractId,
                      selectedSchemaName, selectedPropertyEntityId,
                      selectedProperty, propertyNeighbors, semanticLinks>>]_vars

\* a create-link request failed with the dialog open and its cascade filled
C9_Witness ==
  /\ lastEvent.type = "assignFailed"
  /\ toast = ErrorToast("conflict")
  /\ assignDialogOpen
  /\ assignTargetType = "data_contract_property"
  /\ selectedPropertyEntityId # <<>>

\* C10: when the create-link request of handleAssign succeeds, the
\* assignment dialog is closed, assignTargetType, selectedContractId,
\* selectedSchemaName and selectedPropertyEntityId are reset to empty, and
\* selectProperty is re-run for the selected property: its neighbors are
\* requested again and, once that request has settled, its links.
C10_SuccessResetsAndRefreshes ==
  /\ lastEvent.type = "assignSucceeded" =>
        /\ ~assignDialogOpen
        /\ assignTargetType = ""
        /\ selectedContractId = <<>>
        /\ selectedSchemaName = <<>>
        /\ selectedPropertyEntityId = <<>>
        /\ selectedProperty = lastEvent.property
        /\ \E r \in OfKind("neighbors") :
              r.id = nextId - 1 /\ r.property = lastEvent.property
  /\ lastEvent.type \in {"neighborsLoaded", "neighborsFailed"} =>
        \E r \in OfKind("links") :
          r.id = nextId - 1 /\ r.property = lastEvent.property

\* a create-link request has just succeeded
C10_Witness ==
  /\ lastEvent.type = "assignSucceeded"
  /\ toast = SuccessToast
  /\ selectedProperty = SyntheticA

\* C11: choosing a column in the asset browser with a property selected
\* issues at once exactly one create-link POST with entity_type 'uc_column'
\* and entity_id the column's full_name; when that POST succeeds the asset
\* dialog and the assignment dialog are closed and selectProperty is re-run
\* for the property (neighbors, then links, are requested again); handleAssign
\* issues no POST when the target type is uc_column.
C11_UCColumnPersistsOnSelect ==
  /\ (/\ lastEvent.type = "ucSelect"
      /\ lastEvent.asset.column_name # <<>>
      /\ selectedProperty # Null) =>
        /\ nextId = lastEvent.issuedBefore + 1
        /\ \E r \in OfKind("post") :
              /\ r.id = nextId - 1
              /\ r.origin = "handleUCColumnSelect"
              /\ r.body = [entity_id |-> lastEvent.asset.full_name,
                           entity_type |-> "uc_column",
                           iri |-> selectedProperty.value]
  /\ lastEvent.type = "ucAssignSucceeded" =>
        /\ ~assignDialogOpen
        /\ ~ucAssetDialogOpen
        /\ \E r \in OfKind("neighbors") :
              r.id = nextId - 1 /\ r.property = lastEvent.property
  /\ lastEvent.type \in {"neighborsLoaded", "neighborsFailed"} =>
        \E r \in OfKind("links") : r.property = lastEvent.property
  /\ (lastEvent.type = "handleAssign" /\ assignTargetType = "uc_column") =>
        ~lastEvent.posted
  /\ \A r \in OfKind("post") :
        r.origin = "handleAssign" => r.body.entity_type # "uc_column"

\* the POST issued on the choice of a column has just succeeded
C11_Witness ==
  /\ lastEvent.type = "ucAssignSucceeded"
  /\ toast = SuccessToast
  /\ assignTargetType = "uc_column"
  /\ ~ucAssetDialogOpen

\* --- enrichment ------------------------------------------------------------
\* the last task ran a part of enrichSemanticLinksWithNames
EnrichEvent == lastEvent.type \in {"linksLoaded", "contractLoaded", "contractFailed"}

\* the contract fetch the last task stopped at, if it stopped at one
Pending == {r \in inflight : r.id = lastEvent.issuedBefore}

\* the result array of the loop as the last task left it
ResultSoFar ==
  IF Pending # {} THEN (CHOOSE r \in Pending : TRUE).result ELSE semanticLinks

\* e is the link l with an entity_name added
SameLink(e, l) ==
  /\ DOMAIN e = DOMAIN l \cup {"entity_name"}
  /\ \A f \in DOMAIN l : e[f] = l[f]

\* C12: at every step of the loop the result holds, in order, the links
\* processed so far, each with its own id, entity_id, entity_type and iri and
\* an entity_name added; when the loop ends the result is as long as the
\* input, whatever the contract fetches did.
C12_EnrichmentPreservesLinks ==
  EnrichEvent =>
    /\ Len(ResultSoFar) <= Len(lastEvent.links)
    /\ Pending = {} => Len(ResultSoFar) = Len(lastEvent.links)
    /\ \A k \in 1..Len(ResultSoFar) : SameLink(ResultSoFar[k], lastEvent.links[k])

\* a batch of two links ended, the first fetch failed and the second returned
C12_Witness ==
  /\ lastEvent.type = "contractLoaded"
  /\ Pending = {}
  /\ Len(semanticLinks) = 2
  /\ lastEvent.i = 2
  /\ semanticLinks[1].entity_name = semanticLinks[1].entity_id
  /\ semanticLinks[1].entity_type = "data_contract_property"
  /\ semanticLinks[2].entity_name # semanticLinks[2].entity_id

NameTemplate(link) ==
  ContractTitle(ContractDetail(Split(link.entity_id, {"#"})[1]),
                Split(link.entity_id, {"#"})[1])
    \o <<"#">> \o PartOr(Split(link.entity_id, {"#"}), 2)
    \o <<".">> \o PartOr(Split(link.entity_id, {"#"}), 3)

\* the last task received the contract of a data_contract_property link
ContractOfPropertyLoaded ==
  /\ lastEvent.type = "contractLoaded"
  /\ lastEvent.links[lastEvent.i].entity_type = "data_contract_property"

\* C14 as stated: after a successful fetch the entity_name of a
\* data_contract_property link is exactly "<contract title>#<schema>.<property>",
\* a schema or a property absent from entity_id being the empty string.
C14_NameIsTemplate ==
  ContractOfPropertyLoaded =>
    ResultSoFar[lastEvent.i].entity_name = NameTemplate(lastEvent.links[lastEvent.i])

\* C14: after a successful fetch the entity_name of a data_contract_property
\* link is "<contract title>#<schema>.<property>" without its leading and
\* trailing whitespace, a schema or a property absent from entity_id being
\* the empty string.
C14_NameIsTrimmedTemplate ==
  ContractOfPropertyLoaded =>
    ResultSoFar[lastEvent.i].entity_name
      = Trim(NameTemplate(lastEvent.links[lastEvent.i]))

\* "c#s#p" became "T#s.p" and "e", with neither schema nor property, "e#."
C14_Witness ==
  /\ ContractOfPropertyLoaded
  /\ Len(semanticLinks) = 2
  /\ semanticLinks[1].entity_id = <<"c", "#", "s", "#", "p">>
  /\ semanticLinks[1].entity_name = <<"T", "#", "s", ".", "p">>
  /\ semanticLinks[2].entity_id = <<"e">>
  /\ semanticLinks[2].entity_name = <<"e", "#", ".">>

\* the types of link whose enrichment fetches a contract
FetchedTypes == {"data_contract_property", "data_contract"}

\* C15: a link that is neither a data_contract_property nor a data_contract
\* (a uc_column, an unrecognized type) gets its raw entity_id as entity_name
\* and the loop never stops at a contract fetch for it, "#" in entity_id or not.
C15_OnlyPropertyLinksAreSplit ==
  EnrichEvent =>
    /\ \A k \in 1..Len(ResultSoFar) :
          lastEvent.links[k].entity_type \notin FetchedTypes
            => ResultSoFar[k].entity_name = lastEvent.links[k].entity_id
    /\ \A r \in Pending : r.links[r.i].entity_type \in FetchedTypes
    /\ \A r \in Pending :
          r.links[r.i].entity_type = "data_contract" => r.contractId = r.links[r.i].entity_id

\* a uc_column and a link of an unrecognized type, both with "#" in entity_id,
\* were enriched in the task that received them
C15_Witness ==
  /\ lastEvent.type = "linksLoaded"
  /\ Pending = {}
  /\ Len(semanticLinks) = 2
  /\ semanticLinks[1].entity_type = "uc_column"
  /\ semanticLinks[2].entity_type = "glossary_term"
  /\ Includes(semanticLinks[1].entity_id, "#")
  /\ Includes(semanticLinks[2].entity_id, "#")
  /\ semanticLinks[1].entity_name = <<"m", "#", "n">>
  /\ semanticLinks[2].entity_name = <<"x", "#", "y">>

\* --- updateUrl -------------------------------------------------------------
\* the parameter named name occurs in the search string
Present(url, name) ==
  \E i \in 1..Len(ParseParams(url)) : ParseParams(url)[i][1] = name

\* value is the value of the parameter name in url, an empty value meaning
\* that the parameter is absent
Carries(url, name, value) ==
  IF value = <<>> THEN ~Present(url, name)
  ELSE Present(url, name) /\ ParamsGet(ParseParams(url), name) = value

\* the value updateUrl is to give query: the update's, else the URL's
WantedQuery(loc, updates) ==
  IF "query" \in DOMAIN updates THEN updates.query ELSE UrlQuery(loc)

\* the value updateUrl is to give iri
WantedIri(loc, updates) ==
  IF "iri" \in DOMAIN updates THEN updates.iri ELSE UrlIri(loc)

\* C16: the URL updateUrl navigates to carries, for query and for iri, the
\* value given in updates when given and the value of the current URL
\* otherwise; a parameter whose value is the empty string is absent, and
\* when both are absent the target is the bare path.
C16_UpdateUrlMerges ==
  lastEvent.type = "updateUrl" =>
    /\ Carries(search, Str_query, WantedQuery(lastEvent.loc, lastEvent.updates))
    /\ Carries(search, Str_iri, WantedIri(lastEvent.loc, lastEvent.updates))
    /\ (WantedQuery(lastEvent.loc, lastEvent.updates) = <<>>
          /\ WantedIri(lastEvent.loc, lastEvent.updates) = <<>>) => search = <<>>

\* an update of iri alone kept the query "a b" of the current URL
C16_Witness ==
  /\ lastEvent.type = "updateUrl"
  /\ lastEvent.updates = [iri |-> PropA.value]
  /\ UrlQuery(lastEvent.loc) = <<"a", " ", "b">>
  /\ UrlIri(lastEvent.loc) = <<"a">>
  /\ search = <<"?", "q", "u", "e", "r", "y", "=", "a", "+", "b", "&",
                "i", "r", "i", "=", "o", "%", "2", "3", "a">>

\* --- selectProperty --------------------------------------------------------
\* C17: once a result is selected, the neighbors request and the links
\* request of the selected property are both in flight: the links request is
\* issued without waiting for the neighbors response.
C17_LinksIssuedWithNeighbors ==
  lastEvent.type = "select" =>
    /\ \E r \in OfKind("neighbors") : r.property = selectedProperty
    /\ \E r \in OfKind("links") : r.property = selectedProperty

\* the text selectProperty writes into the search box
RewrittenQuery == propertyLabel \o <<" ", "-", " ">> \o propertyIri

\* C18: the task that selects a result issues no request other than the
\* neighbors and links requests; no property search is ever in flight for the
\* text selectProperty wrote into the search box, and no response to such a
\* search opens the dropdown.
C18_SelectionIssuesTwoRequests ==
  /\ lastEvent.type = "select" =>
       \A r \in inflight :
          r.id >= lastEvent.issuedBefore => r.kind \in {"neighbors", "links"}
  /\ selectedProperty # Null =>
       \A r \in OfKind("search") : r.q # RewrittenQuery
  /\ (selectedProperty # Null /\ lastEvent.type = "searchLoaded"
        /\ lastEvent.q = RewrittenQuery) => ~isPropertyDropdownOpen

\* the step settles a request of the kind and leaves the event type
Settles(kind, type) ==
  /\ lastEvent'.type = type
  /\ \E r \in OfKind(kind) : r \notin inflight'

\* C19: a failed neighbors fetch empties propertyNeighbors, leaves
\* selectedProperty, the URL and semanticLinks as they were and issues the
\* links request of the same property; a failed links fetch empties
\* semanticLinks and leaves selectedProperty, the URL and propertyNeighbors as
\* they were.
C19_FetchFailuresAreLocal ==
  [][ /\ Settles("neighbors", "neighborsFailed") =>
           /\ propertyNeighbors' = <<>>
           /\ selectedProperty' = selectedProperty
           /\ search' = search
           /\ semanticLinks' = semanticLinks
           /\ \E r \in OfKind("neighbors") :
                 /\ r \notin inflight'
                 /\ [kind |-> "links", property |-> r.property, id |-> nextId]
                       \in inflight'
      /\ Settles("links", "linksFailed") =>
           /\ semanticLinks' = <<>>
           /\ selectedProperty' = selectedProperty
           /\ search' = search
           /\ propertyNeighbors' = propertyNeighbors ]_vars

\* the neighbors fetch of the selected property failed and its links request
\* is in flight
C19_Witness ==
  /\ lastEvent.type = "neighborsFailed"
  /\ selectedProperty = lastEvent.property
  /\ propertyNeighbors = <<>>
  /\ UrlIri(search) = selectedProperty.value
  /\ \E r \in OfKind("links") : r.property = selectedProperty

\* C20: the response to a neighbors request or to a links request is stored
\* whatever property is selected when it arrives, so that after a selection
\* of A followed by a selection of B the late response fetched for A is what
\* propertyNeighbors or semanticLinks hold under B.
C20_LateResponseIsStored ==
  /\ lastEvent.type = "neighborsLoaded" =>
       propertyNeighbors = NeighborsOf(lastEvent.property.value)
  /\ (lastEvent.type = "linksLoaded" /\ Pending = {}) =>
       /\ Len(semanticLinks) = Len(lastEvent.links)
       /\ \A k \in 1..Len(semanticLinks) : semanticLinks[k].iri = lastEvent.links[k].iri

\* o/b is selected, its neighbors response has arrived, and the neighbors
\* fetched for o#a, which arrived after it, are the ones held
C20_Witness ==
  /\ selectedProperty = PropB
  /\ lastEvent.type = "neighborsLoaded"
  /\ lastEvent.property = PropA
  /\ propertyNeighbors = NeighborsOf(PropA.value)
  /\ \A r \in OfKind("neighbors") : r.property # PropB
  /\ \E r \in OfKind("links") : r.property = PropB

\* --- URL sync effect -------------------------------------------------------
\* C21: whenever a task changes the URL to one that carries a query
\* parameter, the search query after the task is the URL's value: a value
\* that differed from the search query was adopted, an equal one left alone.
C21_UrlQueryAdopted ==
  [][ (search' # search /\ UrlQuery(search') # <<>>)
        => propertySearchQuery' = UrlQuery(search') ]_vars

C23_OneContractFetchAtATime ==
  /\ Cardinality(OfKind("contract")) <= 1
  /\ EnrichEvent =>
       \A r \in OfKind("contract") :
          /\ r.i > lastEvent.i
          /\ Len(r.result) = r.i - 1
          /\ r.id = lastEvent.issuedBefore

\* the fetch of the second link was issued by the task that settled the fetch
\* of the first
C23_Witness ==
  /\ lastEvent.type \in {"contractLoaded", "contractFailed"}
  /\ lastEvent.i = 1
  /\ \E r \in OfKind("contract") : r.i = 2 /\ Len(r.result) = 1

\* --- assignment cascade ----------------------------------------------------
\* the entity ids "c#s#p" in which s is a schema of the contract c and p a
\* property of s in the detail the backend returns for c
BackendEntityIds ==
  { PropertyEntityId(ContractList[k].id,
                     SchemaName(ContractDetail(ContractList[k].id).schema_objects[i]),
                     ContractDetail(ContractList[k].id).schema_objects[i].properties[j].name) :
      <<k, i, j>> \in
        { t \in (1..Len(ContractList)) \X (1..1) \X (1..1) :
            /\ t[2] <= Len(ContractDetail(ContractList[t[1]].id).schema_objects)
            /\ t[3] <= Len(ContractDetail(ContractList[t[1]].id)
                             .schema_objects[t[2]].properties) } }

\* C24: every create-link request for a data_contract_property target
\* carries an entity id "c#s#p" in which s is a schema of c and p a property
\* of s according to the backend's detail of c.
C24_PostedEntityIdIsConsistent ==
  \A r \in OfKind("post") :
     r.body.entity_type = "data_contract_property"
       => r.body.entity_id \in BackendEntityIds

\* s begins with prefix
StartsWith(s, prefix) ==
  Len(s) >= Len(prefix) /\ SubSeq(s, 1, Len(prefix)) = prefix

\* C25: a chosen property entity implies a chosen schema, a chosen schema a
\* chosen contract, a chosen contract the data_contract_property target
\* type; and a chosen property entity id begins with
\* "<selectedContractId>#<selectedSchemaName>#".
C25_CascadeIsNested ==
  /\ selectedPropertyEntityId # <<>> => selectedSchemaName # <<>>
  /\ selectedSchemaName # <<>> => selectedContractId # <<>>
  /\ selectedContractId # <<>> => assignTargetType = "data_contract_property"
  /\ selectedPropertyEntityId # <<>> =>
       StartsWith(selectedPropertyEntityId,
                  selectedContractId \o <<"#">> \o selectedSchemaName \o <<"#">>)

\* the second contract was chosen and its detail loaded, then a schema and a
\* property of it
C25_Witness ==
  /\ lastEvent.type = "property"
  /\ selectedContractId = ContractList[2].id
  /\ selectedSchemaName # <<>>
  /\ selectedPropertyEntityId # <<>>
  /\ selectedContractDetail = ContractDetail(ContractList[2].id)

\* --- typed queries and selections ------------------------------------------
\* the search for the query q the user typed has just completed while a
\* property was selected with its iri in the URL, and every request still in
\* flight was issued by the task of that response
TypedSearchCompleted ==
  /\ lastEvent.type = "searchLoaded"
  /\ lastEvent.q \in TypedQueries
  /\ propertySearchQuery = lastEvent.q
  /\ selectedProperty # Null
  /\ UrlIri(search) = selectedProperty.value
  /\ UrlQuery(search) = lastEvent.q
  /\ \A r \in inflight : r.id >= lastEvent.issuedBefore

\* C26: once the search for a typed query q has completed and the URL is
\* updated, no step of the program (a timer, a response, an effect; not a
\* user event) changes the search box or the results shown.
C26_TypedQueryIsKept ==
  [][ (TypedSearchCompleted /\ userEvents' = userEvents)
        => /\ propertySearchQuery' = propertySearchQuery
           /\ propertySearchResults' = propertySearchResults ]_vars

\* C27: after clearSearch, the response to a request that was in flight at
\* the time of the call leaves selectedProperty null and propertyNeighbors and
\* semanticLinks empty.
C27_ClearedStateStaysCleared ==
  [][ ( /\ lastEvent.type = "clearSearch"
        /\ userEvents' = userEvents
        /\ \E r \in inflight : r \notin inflight' )
        => /\ selectedProperty' = Null
           /\ propertyNeighbors' = <<>>
           /\ semanticLinks' = <<>> ]_vars

\* --- overlapping searches --------------------------------------------------
\* C28: when the response of a search request arrives right after the
\* response of a search request issued later than it, and no search request
\* is left in flight, the results stay those of the request issued last.
C28_LastIssuedSearchWins ==
  [][ ( /\ lastEvent.type = "searchLoaded"
        /\ lastEvent'.type = "searchLoaded"
        /\ lastEvent'.id < lastEvent.id
        /\ \A r \in inflight' : r.kind # "search" )
        => propertySearchResults' = propertySearchResults ]_vars

\* --- termination -----------------------------------------------------------
\* C29: left alone after it is mounted with a deep link, the component
\* settles: from some point on no step changes the URL or the search query.
C29_FeedbackTerminates ==
  <>[][search' = search /\ propertySearchQuery' = propertySearchQuery]_vars

\* --- the workflow list ------------------------------------------------------
\* the ids of the list's entries
WorkflowIds(list) == {list[i].id : i \in 1..Len(list)}

\* C30: a DELETE request that failed, by a response that carries an error or
\* by a rejection, leaves the workflow list as it is, and an entry leaves the
\* list only in the step that receives a DELETE response without an error;
\* no DELETE request is issued for a default workflow.
C30_FailedDeleteKeepsList ==
  [][ /\ (\/ Settles("deleteWorkflow", "deleteRejected")
          \/ (Settles("deleteWorkflow", "deleteAnswered") /\ lastEvent'.error # ""))
         => workflows' = workflows
      /\ ~(WorkflowIds(workflows) \subseteq WorkflowIds(workflows'))
         => (Settles("deleteWorkflow", "deleteAnswered") /\ lastEvent'.error = "")
      /\ \A r \in inflight' : r.kind = "deleteWorkflow" => ~r.workflow.is_default
    ]_vars

====
